---- MODULE Spec2Model ----
(***************************************************************************)
(* State-machine model of the home-agent infrastructure components:        *)
(*   - MqttClient      (src/src/home_agent/bus/mqtt_client.py)             *)
(*   - DbManager       (src/src/home_agent/db.py)                          *)
(*   - SonosPlayback   (src/src/home_agent/integrations/sonos_playback.py) *)
(*   - AudioHost       (src/src/home_agent/integrations/audio_host.py)     *)
(*   - sonos gateway   (src/src/home_agent/services/sonos_gateway.py)      *)
(*   - EventBus        (src/src/home_agent/core/events.py)                 *)
(*   - camera-lighting agent                                               *)
(*                     (src/.../services/camera_lighting_agent.py)         *)
(*   - time-trigger service (src/src/home_agent/services/time_trigger.py)  *)
(* Each component has its own specification (SpecMqtt, SpecDb, ...); the   *)
(* variables of the other components stay at their initial values.         *)
(***************************************************************************)
EXTENDS Integers, Sequences, FiniteSets, TLC

(***************************************************************************)
(* Bounds of the model.                                                    *)
(***************************************************************************)
MaxQueueArg == 2        \* largest queue_maxsize argument tried (0..MaxQueueArg)
MaxMsgs == 3            \* messages the broker delivers in one behaviour
MaxConnects == 2        \* connection acknowledgments in one behaviour
MaxSubCalls == 2        \* subscribe() calls by the application in one behaviour

NumDbThreads == 2       \* threads calling into one DbManager
MaxConns == 3           \* connections the database hands out in one behaviour
MaxOutages == 1         \* database outages in one behaviour
MaxReconnectWait == 3   \* largest reconnect_max_wait_seconds tried (seconds)
LongReconnectWait == 16 \* a reconnect_max_wait_seconds that lets the backoff reach its cap
MaxRetries == 2         \* largest retries argument of run()

MaxSpeakerIps == 3      \* longest configured speaker_ips list
MaxConcurrency == 2     \* largest concurrency argument of play_url
MaxResumeIps == 2        \* longest speaker_ips list tried with playing speakers
MaxDeviceFaults == 1    \* device calls that raise during one play_url request (a raising stop aside)

MaxTime == 12           \* the clock stops after this many half seconds
NumHostCallers == 2     \* threads calling host_bytes() on one AudioHost
MaxFiles == 2           \* host_bytes() calls in one behaviour

MaxRequests == 2        \* messages the gateway takes from its queue in one behaviour

MaxSubscriptions == 3   \* EventBus.subscribe() calls in one behaviour
MaxPublishes == 2       \* EventBus.publish() calls in one behaviour

MaxTriggers == 3        \* trigger_lights() calls in one behaviour
MaxMono == 5            \* the monotonic clock stops after this many seconds
MaxDuration == 2        \* largest duration setting tried (seconds)
MaxRetrigger == 2       \* largest min_retrigger setting tried (seconds)

NumSchedules == 2       \* schedule ids the database hands out
MaxEdits == 3           \* changes made to the schedules table in one behaviour
MaxReloads == 3         \* iterations of reload_loop in one behaviour

Topics == {"t1", "t2"}
QosLevels == {0, 1}
ConnackCodes == {0, 5}  \* 0 = accepted, 5 = refused (not authorised)

\* The application and the broker either exchange many messages over one
\* subscription or make several subscribe() calls around few messages.
Workloads == {[msgs |-> MaxMsgs, subs |-> 1], [msgs |-> 1, subs |-> MaxSubCalls]}

Max(a, b) == IF a >= b THEN a ELSE b
Min(a, b) == IF a <= b THEN a ELSE b

VARIABLES
    \* ---- MqttClient ----
    queue_maxsize,        \* the constructor argument
    loop,                 \* self._loop is set
    queue,                \* self._queue contents (message ids, oldest first)
    connected,            \* self._connected
    connected_event,      \* self._connected_event: "none" | "clear" | "set"
    subs,                 \* self._subs: function from the registered topics to their qos
    received_total, dropped_total, connect_total, disconnect_total,
    last_connect_rc, last_disconnect_rc, max_queue_size_seen,
    loopCalls,            \* callbacks scheduled with call_soon_threadsafe (FIFO)
    connectPc,            \* connect(): "init" | "waiting" | "returned" | "timeout"
    netRunning,           \* the library's network thread is started
    sock,                 \* the library holds a socket to the broker
    sessionOk,            \* the last acknowledgment accepted the session
    session,              \* broker side: function from the topics subscribed on this session to their qos
    netPc,                \* network thread: "idle" | "resub" (inside on_connect)
    resubList,            \* on_connect: list(self._subs.items()) as a set of pairs
    pending,              \* on_connect: pairs of resubList not yet issued
    cbIssued,             \* subscribe calls issued by the current/last on_connect
    subPc,                \* subscribe(): "idle" or the <<topic, qos>> to issue
    subCalls,             \* number of subscribe() calls made
    arrivals,             \* number of messages passed to on_message
    delivered,            \* message ids returned by next_message(), in order
    workload,             \* what the environment does in this behaviour (see Workloads)
    acks,                 \* result codes of the connection acknowledgments received so far
    netWrites,            \* attributes of the client assigned by statements run on the network thread
    \* ---- DbManager ----
    reconnect_max_wait_seconds,  \* the constructor argument
    closing,              \* self._closing is set
    lock,                 \* self._lock: 0 when free, else the thread holding it
    conn,                 \* self._conn: 0 for None, else a connection id
    conns,                \* connection id -> "unused" | "open" | "broken" | "bad" | "closed"
    dbUp,                 \* the database accepts connections
    outages,              \* number of outages so far
    pc,                   \* per thread: position in the call it executes
    ret,                  \* per thread: who called ensure_connected ("top" | "run1" | "run2")
    result,               \* per thread: outcome of its last finished call
    retries,              \* per thread: run()'s retries argument
    opKind,               \* per thread: what fn does on a healthy connection
    new_conn,             \* per thread: ensure_connected's new_conn (0: none)
    c,                    \* per thread: close()'s local c (0: None)
    delay,                \* per thread: ensure_connected's delay
    elapsed,              \* per thread: monotonic time since the deadline was computed
    acquired,             \* per thread, close(): what self._lock.acquire(timeout=0.5) returned
    closeReturned,        \* a close() call has returned
    opFails,              \* per thread, run(): fn raises a connection-level error on its first opFails calls
    invocations,          \* per thread, run(): calls of fn made so far
    attempts,             \* per thread, ensure_connected(): connection attempts of the call that failed
    \* ---- SonosPlayback ----
    speaker_ips,          \* self._speaker_ips: the configured addresses, in order
    default_volume,       \* self._default_volume
    speaker_volume_map,   \* self._speaker_volume_map: function from some addresses to a volume
    coordOf,              \* the devices' grouping: address -> address of its group coordinator
    pbPc,                 \* play_url(): "idle" | "resolve" | "running" | "returned" | "raised"
    volume,               \* play_url's volume argument: <<>> for None, else <<v>>
    concurrency,          \* play_url's concurrency argument
    idx,                  \* _resolve_targets: position of the for loop in speaker_ips
    seen,                 \* _resolve_targets: seen
    out,                  \* _resolve_targets: out, then play_url's targets
    taskPc,               \* per target: "queued" | "snapshot" | "play" | "wait" | "restore" | "done"
    taskErr,              \* per target: _play_url_blocking has an exception to propagate
    plays,                \* per device address: play_uri commands issued to it
    volCmd,               \* per device address: the last volume written to it (<<>>: none)
    stopped,              \* per device address: stop commands issued to it
    restoreRaised,        \* device addresses whose snapshot restore raised
    stopRaised,           \* device addresses whose stop command raised
    callThreads,          \* <<device call, thread>>: the threads the device calls were made on
    expected_duration_seconds,  \* play_url argument: <<>> (None) or <<seconds>>
    taskLog,              \* per target: the device actions its routine has taken, in order
    playingBefore,        \* the devices that are playing when the request arrives
    was_playing,          \* per target: _play_url_blocking's was_playing
    settled,              \* per target: what the query after the settle wait found: "none" | "playing" | "not_playing"
    resumed,              \* per target: spk.play() commands issued after the restore
    lookupRaised,         \* some group lookup of this request raised
    faults,               \* device calls that raised in this request
    \* ---- AudioHost ----
    ttl_seconds,          \* self._ttl_seconds
    cleanup_interval_seconds,  \* self._cleanup_interval_seconds
    now,                  \* time.time(), in half seconds
    httpd,                \* self._httpd: "none" | "serving" | "closed"
    root,                 \* self._root / self._td: "none" | "present" | "removed"
    stop,                 \* self._stop is set
    expires_at,           \* self._expires_at: function from file names to expiry times
    files,                \* the files in the temp directory: function from names to mtime
    callers,              \* number of threads that call host_bytes()
    hostPc,               \* per caller, host_bytes(): "idle" | "record" (file written, expiry not recorded)
    unique,               \* per caller, host_bytes(): the name being hosted (0: none)
    starts,               \* how often _ensure_started() created a directory, a server and a cleanup thread
    urlBase,              \* names whose URL was returned -> the server (by creation count) of its base URL
    writtenDir,           \* names written -> the directory (by creation count) they were written into
    hostCalls,            \* number of host_bytes() calls made
    hostedAt,             \* names whose URL was returned -> time host_bytes() returned
    sweepPc,              \* cleanup thread: "none" | "sleeping" | "ended"
    sweepWake,            \* cleanup thread: time its current sleep ends
    callsAtClose,         \* host_bytes() calls made before the last close() (-1: never closed)
    lastFetch,            \* the last HTTP GET answered at the current time: [name, status, swept]
    \* ---- sonos gateway ----
    quiet_hours,          \* settings.quiet_hours: enabled and the four "HH:MM" texts
    gwPc,                 \* run_sonos_gateway: "waiting" | "tts" | "host" | "play" | "crashed"
    msg,                  \* the message being handled, or handled last
    now_local,            \* datetime.now(tz=tz) read for that message
    taken,                \* messages taken from the queue so far
    ttsCalls,             \* tts.synthesize calls made for that message
    hostBytesCalls,       \* host.host_bytes calls made for that message
    playUrlCalls,         \* play_url calls made for that message
    published,            \* envelopes published for that message
    suppressed_total, ok_total, err_total,
    \* ---- EventBus ----
    busSubs,              \* self._subs: function from the topics subscribed to their handler lists
    subscribeCalls,       \* number of subscribe() calls made
    publishCalls,         \* number of publish() calls made
    pubPc,                \* publish(): "idle" | "running" | "returned" | "raised"
    event,                \* publish(): event
    handlers,             \* publish(): handlers
    registered,           \* the registry as it was when publish() was called
    hPc,                  \* per position of handlers: "running" | "done" | "failed"
    received,             \* per handler: the events it was called with by this publish()
    \* ---- camera-lighting agent ----
    duration,             \* duration: seconds the light stays on after a trigger
    min_retrigger,        \* min_retrigger: seconds within which "on" is not sent again
    now_mono,             \* time.monotonic(), in seconds
    timers,               \* timers: function from the keys present to _LightTimer records
    offTasks,             \* the schedule_off tasks created, in creation order
    commands,             \* the lutron commands published, oldest first
    triggerTimes,         \* the times of the trigger_lights() calls made
    \* ---- time-trigger service ----
    table,                \* the rows of the schedules table of the database
    jobs,                 \* ids of the schedules that have a job in the scheduler
    reload_inflight,      \* reload_inflight
    schedules,            \* reload_loop: schedules, the rows the last load returned
    reloadPc,             \* reload_loop: "sleeping" | "loading" | "loaded"
    reloadResult,         \* outcome of the last iteration: "none" | "ok" | "failed"
    reloads,              \* iterations of reload_loop started
    edits                 \* changes made to the schedules table

mqttVars == <<queue_maxsize, loop, queue, connected, connected_event, subs,
              received_total, dropped_total, connect_total, disconnect_total,
              last_connect_rc, last_disconnect_rc, max_queue_size_seen,
              loopCalls, connectPc, netRunning, sock, sessionOk, session,
              netPc, resubList, pending, cbIssued, subPc, subCalls, arrivals,
              delivered, workload, acks, netWrites>>

dbVars == <<reconnect_max_wait_seconds, closing, lock, conn, conns, dbUp,
            outages, pc, ret, result, retries, opKind, new_conn, c, delay,
            elapsed, acquired, closeReturned, opFails, invocations, attempts>>

playbackVars == <<speaker_ips, default_volume, speaker_volume_map, coordOf,
                  pbPc, volume, concurrency, idx, seen, out, taskPc, taskErr,
                  plays, volCmd, stopped, lookupRaised, faults, restoreRaised,
                  stopRaised, callThreads, expected_duration_seconds, taskLog,
                  playingBefore, was_playing, settled, resumed>>

hostVars == <<ttl_seconds, cleanup_interval_seconds, now, httpd, root, stop,
              expires_at, files, hostPc, unique, hostCalls, hostedAt, sweepPc,
              sweepWake, lastFetch, callsAtClose, callers, starts, urlBase,
              writtenDir>>

gatewayVars == <<quiet_hours, gwPc, msg, now_local, taken, ttsCalls,
                 hostBytesCalls, playUrlCalls, published, suppressed_total,
                 ok_total, err_total>>

busVars == <<busSubs, subscribeCalls, publishCalls, pubPc, event, handlers,
             registered, hPc, received>>

lightingVars == <<duration, min_retrigger, now_mono, timers, offTasks,
                  commands, triggerTimes>>

triggerVars == <<table, jobs, reload_inflight, schedules, reloadPc,
                 reloadResult, reloads, edits>>

vars == <<mqttVars, dbVars, playbackVars, hostVars, gatewayVars, busVars, lightingVars, triggerVars>>

otherThanMqtt == <<dbVars, playbackVars, hostVars, gatewayVars, busVars, lightingVars, triggerVars>>
otherThanDb == <<mqttVars, playbackVars, hostVars, gatewayVars, busVars, lightingVars, triggerVars>>
otherThanPlayback == <<mqttVars, dbVars, hostVars, gatewayVars, busVars, lightingVars, triggerVars>>
otherThanHost == <<mqttVars, dbVars, playbackVars, gatewayVars, busVars, lightingVars, triggerVars>>
otherThanGateway == <<mqttVars, dbVars, playbackVars, hostVars, busVars, lightingVars, triggerVars>>
otherThanBus == <<mqttVars, dbVars, playbackVars, hostVars, gatewayVars, lightingVars, triggerVars>>
otherThanLighting == <<mqttVars, dbVars, playbackVars, hostVars, gatewayVars, busVars, triggerVars>>
otherThanTrigger == <<mqttVars, dbVars, playbackVars, hostVars, gatewayVars, busVars, lightingVars>>

(***************************************************************************)
(* MqttClient                                                              *)
(***************************************************************************)

\* asyncio.Queue(maxsize=max(1, int(queue_maxsize)))
QueueCapacity(arg) == Max(1, arg)

\* Mutation of SubItems: the connect callback forgets the registry.
SubItemsNone(reg) == {}

\* list(self._subs.items())
SubItems(reg) == {<<tp, reg[tp]>> : tp \in DOMAIN reg}

InitMqtt ==
    /\ queue_maxsize \in 0..MaxQueueArg
    /\ loop = FALSE
    /\ queue = <<>>
    /\ connected = FALSE
    /\ connected_event = "none"
    /\ subs = <<>>
    /\ received_total = 0 /\ dropped_total = 0
    /\ connect_total = 0 /\ disconnect_total = 0
    /\ last_connect_rc = -1 /\ last_disconnect_rc = -1
    /\ max_queue_size_seen = 0
    /\ loopCalls = <<>>
    /\ connectPc = "init"
    /\ netRunning = FALSE
    /\ sock = FALSE
    /\ sessionOk = FALSE
    /\ session = <<>>
    /\ netPc = "idle"
    /\ resubList = {}
    /\ pending = {}
    /\ cbIssued = {}
    /\ subPc = "idle"
    /\ subCalls = 0
    /\ arrivals = 0
    /\ delivered = <<>>
    /\ workload \in Workloads
    /\ acks = <<>>
    /\ netWrites = {}

\* Mutation of Enqueue: a full queue evicts its oldest entry (drop-oldest).
EnqueueDropOldest(m) ==
    /\ received_total' = received_total + 1
    /\ IF Len(queue) < Max(1, queue_maxsize)
         THEN /\ queue' = Append(queue, m)
              /\ max_queue_size_seen' = Max(max_queue_size_seen, Len(queue) + 1)
              /\ UNCHANGED dropped_total
         ELSE /\ dropped_total' = dropped_total + 1
              /\ queue' = Append(Tail(queue), m)
              /\ UNCHANGED max_queue_size_seen

\* Mutation of Enqueue: a full queue discards the message without counting it.
EnqueueSilentDrop(m) ==
    /\ received_total' = received_total + 1
    /\ IF Len(queue) < Max(1, queue_maxsize)
         THEN /\ queue' = Append(queue, m)
              /\ max_queue_size_seen' = Max(max_queue_size_seen, Len(queue) + 1)
              /\ UNCHANGED dropped_total
         ELSE UNCHANGED <<queue, max_queue_size_seen, dropped_total>>

\* Mutation of Enqueue: the message is put at the head of the queue.
EnqueueFront(m) ==
    /\ received_total' = received_total + 1
    /\ IF Len(queue) < Max(1, queue_maxsize)
         THEN /\ queue' = <<m>> \o queue
              /\ max_queue_size_seen' = Max(max_queue_size_seen, Len(queue) + 1)
              /\ UNCHANGED dropped_total
         ELSE /\ dropped_total' = dropped_total + 1
              /\ UNCHANGED <<queue, max_queue_size_seen>>

\* _enqueue(m): runs on the event loop.
Enqueue(m) ==
    /\ received_total' = received_total + 1
    /\ IF Len(queue) < QueueCapacity(queue_maxsize)
         THEN /\ queue' = Append(queue, m)
              /\ max_queue_size_seen' = Max(max_queue_size_seen, Len(queue) + 1)
              /\ UNCHANGED dropped_total
         ELSE \* asyncio.QueueFull: drop newest
              /\ dropped_total' = dropped_total + 1
              /\ UNCHANGED <<queue, max_queue_size_seen>>

\* _mark_connected(): runs on the event loop.
MarkConnected ==
    /\ connected_event' = IF connected_event # "none" THEN "set" ELSE connected_event
    /\ UNCHANGED <<queue, received_total, dropped_total, max_queue_size_seen>>

\* client.subscribe(topic, qos) of the library: sent only over a live socket.
ClientSubscribe(sess, tp, q) == IF sock THEN (tp :> q) @@ sess ELSE sess

\* connect(): up to the await on the connected event.
MqConnect ==
    /\ connectPc = "init"
    /\ subPc = "idle"    \* the event loop is not inside subscribe()
    /\ loop' = TRUE
    /\ connected_event' = "clear"
    /\ netRunning' = TRUE
    /\ connectPc' = "waiting"
    /\ UNCHANGED <<queue_maxsize, queue, connected, subs, received_total,
                   dropped_total, connect_total, disconnect_total,
                   last_connect_rc, last_disconnect_rc, max_queue_size_seen,
                   loopCalls, sock, sessionOk, session, netPc, resubList,
                   pending, cbIssued, subPc, subCalls, arrivals,
                   delivered>>
    /\ UNCHANGED <<workload, acks, netWrites, otherThanMqtt>>

\* connect(): the await completes because the event is set.
MqConnectReturn ==
    /\ connectPc = "waiting"
    /\ subPc = "idle"    \* the event loop is not inside subscribe()
    /\ connected_event = "set"
    /\ connectPc' = "returned"
    /\ UNCHANGED <<queue_maxsize, loop, queue, connected, connected_event, subs,
                   received_total, dropped_total, connect_total,
                   disconnect_total, last_connect_rc, last_disconnect_rc,
                   max_queue_size_seen, loopCalls, netRunning, sock, sessionOk,
                   session, netPc, resubList, pending, cbIssued, subPc,
                   subCalls, arrivals,
                   delivered>>
    /\ UNCHANGED <<workload, acks, netWrites, otherThanMqtt>>

\* connect(): asyncio.wait_for(..., timeout=15.0) expires before the event is set.
MqConnectTimeout ==
    /\ connectPc = "waiting"
    /\ subPc = "idle"    \* the event loop is not inside subscribe()
    /\ connected_event # "set"
    /\ connectPc' = "timeout"
    /\ UNCHANGED <<queue_maxsize, loop, queue, connected, connected_event, subs,
                   received_total, dropped_total, connect_total,
                   disconnect_total, last_connect_rc, last_disconnect_rc,
                   max_queue_size_seen, loopCalls, netRunning, sock, sessionOk,
                   session, netPc, resubList, pending, cbIssued, subPc,
                   subCalls, arrivals,
                   delivered>>
    /\ UNCHANGED <<workload, acks, netWrites, otherThanMqtt>>

\* on_connect, first part (network thread): flags, counters, snapshot of the registry.
OnConnect(rc) ==
    /\ netRunning /\ ~sock /\ netPc = "idle"
    /\ connect_total < MaxConnects
    /\ sock' = TRUE
    /\ sessionOk' = (rc = 0)
    /\ session' = <<>>     \* clean_session=True
    /\ connected' = TRUE
    /\ connect_total' = connect_total + 1
    /\ last_connect_rc' = rc
    /\ IF ~loop
         THEN UNCHANGED <<netPc, resubList, pending, cbIssued>>
         ELSE /\ netPc' = "resub"
              /\ resubList' = SubItems(subs)
              /\ pending' = SubItems(subs)
              /\ cbIssued' = {}
    /\ UNCHANGED <<queue_maxsize, loop, queue, connected_event, subs,
                   received_total, dropped_total, disconnect_total,
                   last_disconnect_rc, max_queue_size_seen, loopCalls,
                   connectPc, netRunning, subPc, subCalls, arrivals,
                   delivered>>
    /\ acks' = Append(acks, rc)
    /\ netWrites' = netWrites \cup {"connected", "connect_total", "last_connect_rc"}
    /\ UNCHANGED <<workload, otherThanMqtt>>

\* on_connect, loop body: self._client.subscribe(topic, qos=qos) for one item;
\* an exception raised by it is swallowed.
OnConnectResubscribe ==
    /\ netPc = "resub"
    /\ \E item \in pending :
         /\ session' = ClientSubscribe(session, item[1], item[2])
         /\ cbIssued' = cbIssued \cup {item}
         /\ pending' = pending \ {item}
    /\ UNCHANGED <<queue_maxsize, loop, queue, connected, connected_event, subs,
                   received_total, dropped_total, connect_total,
                   disconnect_total, last_connect_rc, last_disconnect_rc,
                   max_queue_size_seen, loopCalls, connectPc, netRunning, sock,
                   sessionOk, netPc, resubList, subPc, subCalls, arrivals,
                   delivered>>
    /\ UNCHANGED <<workload, acks, netWrites, otherThanMqtt>>

\* on_connect, last statement: self._loop.call_soon_threadsafe(_mark_connected)
OnConnectDone ==
    /\ netPc = "resub"
    /\ pending = {}
    /\ loopCalls' = Append(loopCalls, [kind |-> "mark_connected", m |-> 0])
    /\ netPc' = "idle"
    /\ resubList' = {}       \* the callback's locals end with it
    /\ cbIssued' = {}
    /\ UNCHANGED <<queue_maxsize, loop, queue, connected, connected_event, subs,
                   received_total, dropped_total, connect_total,
                   disconnect_total, last_connect_rc, last_disconnect_rc,
                   max_queue_size_seen, connectPc, netRunning, sock, sessionOk,
                   session, pending, subPc, subCalls, arrivals, delivered>>
    /\ UNCHANGED <<workload, acks, netWrites, otherThanMqtt>>

\* the library's result code of a disconnect: connection refused (5) after a
\* refused acknowledgment, connection lost (7) otherwise
DisconnectCode == IF sessionOk THEN 7 ELSE 5

\* on_disconnect (network thread).  A refused acknowledgment is followed by it.
OnDisconnect(rc) ==
    /\ netRunning /\ sock /\ netPc = "idle"
    /\ sock' = FALSE
    /\ sessionOk' = FALSE
    /\ session' = <<>>
    /\ connected' = FALSE
    /\ disconnect_total' = disconnect_total + 1
    /\ last_disconnect_rc' = rc
    /\ UNCHANGED <<queue_maxsize, loop, queue, connected_event, subs,
                   received_total, dropped_total, connect_total,
                   last_connect_rc, max_queue_size_seen, loopCalls, connectPc,
                   netRunning, netPc, resubList, pending, cbIssued, subPc,
                   subCalls, arrivals,
                   delivered>>
    /\ netWrites' = netWrites \cup {"connected", "disconnect_total", "last_disconnect_rc"}
    /\ UNCHANGED <<workload, acks, otherThanMqtt>>

\* on_message (network thread): the broker delivers a message of a subscribed topic.
OnMessage(tp) ==
    /\ netRunning /\ sock /\ sessionOk /\ netPc = "idle"
    /\ tp \in DOMAIN session
    /\ arrivals < workload.msgs
    /\ arrivals' = arrivals + 1
    /\ IF ~loop
         THEN UNCHANGED loopCalls
         ELSE loopCalls' = Append(loopCalls, [kind |-> "enqueue", m |-> arrivals + 1])
    /\ UNCHANGED <<queue_maxsize, loop, queue, connected, connected_event, subs,
                   received_total, dropped_total, connect_total,
                   disconnect_total, last_connect_rc, last_disconnect_rc,
                   max_queue_size_seen, connectPc, netRunning, sock, sessionOk,
                   session, netPc, resubList, pending, cbIssued, subPc,
                   subCalls, delivered>>
    /\ UNCHANGED <<workload, acks, netWrites, otherThanMqtt>>

\* The event loop runs the oldest scheduled callback.
LoopRunCallback ==
    /\ loopCalls # <<>>
    /\ subPc = "idle"    \* the event loop is not inside subscribe()
    /\ loopCalls' = Tail(loopCalls)
    /\ IF Head(loopCalls).kind = "enqueue"
         THEN Enqueue(Head(loopCalls).m) /\ UNCHANGED connected_event
         ELSE MarkConnected
    /\ UNCHANGED <<queue_maxsize, loop, connected, subs, connect_total,
                   disconnect_total, last_connect_rc, last_disconnect_rc,
                   connectPc, netRunning, sock, sessionOk, session, netPc,
                   resubList, pending, cbIssued, subPc, subCalls, arrivals,
                   delivered>>
    /\ UNCHANGED <<workload, acks, netWrites, otherThanMqtt>>

\* subscribe(topic, qos), first statement: self._subs[str(topic)] = int(qos)
SubscribeRecord(tp, q) ==
    /\ subPc = "idle"
    /\ subCalls < workload.subs
    /\ subCalls' = subCalls + 1
    /\ subs' = (tp :> q) @@ subs
    /\ subPc' = <<tp, q>>
    /\ UNCHANGED <<queue_maxsize, loop, queue, connected, connected_event,
                   received_total, dropped_total, connect_total,
                   disconnect_total, last_connect_rc, last_disconnect_rc,
                   max_queue_size_seen, loopCalls, connectPc, netRunning, sock,
                   sessionOk, session, netPc, resubList, pending, cbIssued,
                   arrivals,
                   delivered>>
    /\ UNCHANGED <<workload, acks, netWrites, otherThanMqtt>>

\* subscribe(topic, qos) without its second statement: the topic is recorded
\* in the registry and nothing is sent.
SubscribeRecordOnly ==
    /\ subPc # "idle"
    /\ session' = session
    /\ subPc' = "idle"
    /\ UNCHANGED <<queue_maxsize, loop, queue, connected, connected_event, subs,
                   received_total, dropped_total, connect_total,
                   disconnect_total, last_connect_rc, last_disconnect_rc,
                   max_queue_size_seen, loopCalls, connectPc, netRunning, sock,
                   sessionOk, netPc, resubList, pending, cbIssued, subCalls,
                   arrivals,
                   delivered>>
    /\ UNCHANGED <<workload, acks, netWrites, otherThanMqtt>>

\* subscribe(topic, qos), second statement: self._client.subscribe(topic, qos=qos)
SubscribeIssue ==
    /\ subPc # "idle"
    /\ session' = ClientSubscribe(session, subPc[1], subPc[2])
    /\ subPc' = "idle"
    /\ UNCHANGED <<queue_maxsize, loop, queue, connected, connected_event, subs,
                   received_total, dropped_total, connect_total,
                   disconnect_total, last_connect_rc, last_disconnect_rc,
                   max_queue_size_seen, loopCalls, connectPc, netRunning, sock,
                   sessionOk, netPc, resubList, pending, cbIssued, subCalls,
                   arrivals,
                   delivered>>
    /\ UNCHANGED <<workload, acks, netWrites, otherThanMqtt>>

\* next_message(): await self._queue.get() completes when the queue is not empty.
NextMessage ==
    /\ queue # <<>>
    /\ subPc = "idle"    \* the event loop is not inside subscribe()
    /\ delivered' = Append(delivered, Head(queue))
    /\ queue' = Tail(queue)
    /\ UNCHANGED <<queue_maxsize, loop, connected, connected_event, subs,
                   received_total, dropped_total, connect_total,
                   disconnect_total, last_connect_rc, last_disconnect_rc,
                   max_queue_size_seen, loopCalls, connectPc, netRunning, sock,
                   sessionOk, session, netPc, resubList, pending, cbIssued,
                   subPc, subCalls, arrivals>>
    /\ UNCHANGED <<workload, acks, netWrites, otherThanMqtt>>

NextMqtt ==
    \/ MqConnect
    \/ MqConnectReturn
    \/ MqConnectTimeout
    \/ \E rc \in ConnackCodes : OnConnect(rc)
    \/ OnConnectResubscribe
    \/ OnConnectDone
    \/ OnDisconnect(DisconnectCode)
    \/ \E tp \in Topics : OnMessage(tp)
    \/ LoopRunCallback
    \/ \E tp \in Topics, q \in QosLevels : SubscribeRecord(tp, q)
    \/ SubscribeIssue
    \/ NextMessage


(***************************************************************************)
(* DbManager                                                               *)
(***************************************************************************)
DbThreads == 1..NumDbThreads
ConnIds == 1..MaxConns

InitDb ==
    /\ reconnect_max_wait_seconds \in {0, MaxReconnectWait, LongReconnectWait}
    /\ closing = FALSE
    /\ lock = 0
    /\ conn = 0
    /\ conns = [id \in ConnIds |-> "unused"]
    /\ dbUp = TRUE
    /\ outages = 0
    /\ pc = [t \in DbThreads |-> "idle"]
    /\ ret = [t \in DbThreads |-> "top"]
    /\ result = [t \in DbThreads |-> "none"]
    /\ retries = [t \in DbThreads |-> 0]
    /\ opKind = [t \in DbThreads |-> "ok"]
    /\ new_conn = [t \in DbThreads |-> 0]
    /\ c = [t \in DbThreads |-> 0]
    /\ delay = [t \in DbThreads |-> 1]
    /\ elapsed = [t \in DbThreads |-> 0]
    /\ acquired = [t \in DbThreads |-> FALSE]
    /\ closeReturned = FALSE
    /\ opFails = [t \in DbThreads |-> 0]
    /\ invocations = [t \in DbThreads |-> 0]
    /\ attempts = [t \in DbThreads |-> 0]

\* the manager as constructed, for the specifications of the other components
ParkedDb == InitDb /\ reconnect_max_wait_seconds = 0

\* psycopg: connection.closed
Closed(id) == conns[id] \in {"bad", "closed"}

\* psycopg: connection.close()
ConnClose(cs, id) == [cs EXCEPT ![id] = "closed"]

\* connections created by the manager and not closed
OpenConns == {id \in ConnIds : conns[id] # "unused" /\ ~Closed(id)}

\* deadline = time.monotonic() + max(1.0, self._reconnect_max_wait_seconds)
Deadline == Max(1, reconnect_max_wait_seconds)

\* Mutation of NextDelay: the delay doubles without a cap.
NextDelayUncapped(d) == d * 2

\* delay = min(delay * 2.0, 10.0)
NextDelay(d) == Min(d * 2, 10)

\* How a finished ensure_connected() continues: it returns to its caller, or its
\* exception propagates (through run()'s "with self._lock", which releases the lock).
AfterEnsurePc(t, outcome) ==
    IF outcome = "returned" /\ ret[t] = "run1" THEN "run_fn1"
    ELSE IF outcome = "returned" /\ ret[t] = "run2" THEN "run_fn2"
    ELSE "idle"
AfterEnsureResult(t, outcome) ==
    IF AfterEnsurePc(t, outcome) = "idle" THEN outcome ELSE result[t]
AfterEnsureLock(t, outcome) ==
    IF outcome # "returned" /\ ret[t] # "top" THEN 0 ELSE lock

\* ensure_connected(), lines 82-83: the entry check, for caller `from`.
EnterEnsure(t, from) ==
    IF closing
      THEN /\ pc' = [pc EXCEPT ![t] = "idle"]
           /\ result' = [result EXCEPT ![t] = "db_closing"]
           /\ lock' = IF from # "top" THEN 0 ELSE lock
           /\ UNCHANGED ret
      ELSE /\ pc' = [pc EXCEPT ![t] = "ec_quick"]
           /\ ret' = [ret EXCEPT ![t] = from]
           /\ UNCHANGED <<result, lock>>

\* A thread calls ensure_connected().
EnsureConnected(t) ==
    /\ pc[t] = "idle"
    /\ EnterEnsure(t, "top")
    /\ UNCHANGED <<reconnect_max_wait_seconds, closing, conn, conns, dbUp,
                   outages, retries, opKind, new_conn, c, delay, elapsed>>
    /\ UNCHANGED <<acquired, closeReturned, opFails, invocations, otherThanDb>>
    /\ UNCHANGED attempts

\* ensure_connected(), lines 86-100: the quick check under the lock.  The lock
\* is a threading.Lock: the block is entered only when no thread holds it,
\* the calling thread included.
EcQuickCheck(t) ==
    /\ pc[t] = "ec_quick"
    /\ lock = 0
    /\ IF conn # 0 /\ ~Closed(conn)
         THEN /\ pc' = [pc EXCEPT ![t] = AfterEnsurePc(t, "returned")]
              /\ result' = [result EXCEPT ![t] = AfterEnsureResult(t, "returned")]
              /\ UNCHANGED <<conn, conns, delay, elapsed>>
         ELSE /\ conns' = IF conn # 0 THEN ConnClose(conns, conn) ELSE conns
              /\ conn' = 0
              /\ delay' = [delay EXCEPT ![t] = 1]
              /\ elapsed' = [elapsed EXCEPT ![t] = 0]
              /\ pc' = [pc EXCEPT ![t] = "ec_loop"]
              /\ UNCHANGED result
    /\ UNCHANGED <<reconnect_max_wait_seconds, closing, lock, dbUp, outages,
                   ret, retries, opKind, new_conn, c>>
    /\ UNCHANGED <<acquired, closeReturned, opFails, invocations, otherThanDb>>
    /\ attempts' = IF conn # 0 /\ ~Closed(conn) THEN attempts ELSE [attempts EXCEPT ![t] = 0]

\* ensure_connected(), lines 102-104: top of the reconnect loop.
EcLoopTop(t) ==
    /\ pc[t] = "ec_loop"
    /\ IF closing
         THEN /\ pc' = [pc EXCEPT ![t] = AfterEnsurePc(t, "db_closing")]
              /\ result' = [result EXCEPT ![t] = AfterEnsureResult(t, "db_closing")]
              /\ lock' = AfterEnsureLock(t, "db_closing")
         ELSE /\ pc' = [pc EXCEPT ![t] = "ec_connect"]
              /\ UNCHANGED <<result, lock>>
    /\ UNCHANGED <<reconnect_max_wait_seconds, closing, conn, conns, dbUp,
                   outages, ret, retries, opKind, new_conn, c, delay, elapsed>>
    /\ UNCHANGED <<acquired, closeReturned, opFails, invocations, otherThanDb>>
    /\ UNCHANGED attempts

\* ensure_connected(), line 106: _connect_once() succeeds.
EcConnectOk(t) ==
    /\ pc[t] = "ec_connect"
    /\ dbUp
    /\ \E id \in ConnIds :
         /\ conns[id] = "unused"
         /\ \A j \in ConnIds : j < id => conns[j] # "unused"
         /\ conns' = [conns EXCEPT ![id] = "open"]
         /\ new_conn' = [new_conn EXCEPT ![t] = id]
    /\ pc' = [pc EXCEPT ![t] = "ec_install"]
    /\ UNCHANGED <<reconnect_max_wait_seconds, closing, lock, conn, dbUp,
                   outages, ret, result, retries, opKind, c, delay, elapsed>>
    /\ UNCHANGED <<acquired, closeReturned, opFails, invocations, otherThanDb>>
    /\ UNCHANGED attempts

\* ensure_connected(), lines 117-120: _connect_once() raises after `took` seconds.
EcConnectFail(t, took) ==
    /\ pc[t] = "ec_connect"
    /\ ~dbUp
    /\ elapsed' = [elapsed EXCEPT ![t] = Min(elapsed[t] + took, Deadline)]
    /\ IF elapsed'[t] >= Deadline
         THEN /\ pc' = [pc EXCEPT ![t] = AfterEnsurePc(t, "conn_error")]
              /\ result' = [result EXCEPT ![t] = AfterEnsureResult(t, "conn_error")]
              /\ lock' = AfterEnsureLock(t, "conn_error")
         ELSE /\ pc' = [pc EXCEPT ![t] = "ec_wait"]
              /\ UNCHANGED <<result, lock>>
    /\ UNCHANGED <<reconnect_max_wait_seconds, closing, conn, conns, dbUp,
                   outages, ret, retries, opKind, new_conn, c, delay>>
    /\ UNCHANGED <<acquired, closeReturned, opFails, invocations, otherThanDb>>
    /\ attempts' = [attempts EXCEPT ![t] = @ + 1]

\* Mutation of EcWait: a plain sleep, which lasts the full delay.
EcWaitSleep(t) ==
    /\ pc[t] = "ec_wait"
    /\ elapsed' = [elapsed EXCEPT ![t] =
                      Min(elapsed[t] + delay[t], Deadline)]
    /\ delay' = [delay EXCEPT ![t] = NextDelay(delay[t])]
    /\ pc' = [pc EXCEPT ![t] = "ec_loop"]
    /\ UNCHANGED <<reconnect_max_wait_seconds, closing, lock, conn, conns, dbUp,
                   outages, ret, result, retries, opKind, new_conn, c>>
    /\ UNCHANGED <<acquired, closeReturned, opFails, invocations, otherThanDb>>
    /\ UNCHANGED attempts

\* ensure_connected(), lines 122-123: self._closing.wait(timeout=delay) returns,
\* at once when closing is set, after `delay` seconds otherwise.
EcWait(t) ==
    /\ pc[t] = "ec_wait"
    /\ elapsed' = [elapsed EXCEPT ![t] =
                      IF closing THEN elapsed[t] ELSE Min(elapsed[t] + delay[t], Deadline)]
    /\ delay' = [delay EXCEPT ![t] = NextDelay(delay[t])]
    /\ pc' = [pc EXCEPT ![t] = "ec_loop"]
    /\ UNCHANGED <<reconnect_max_wait_seconds, closing, lock, conn, conns, dbUp,
                   outages, ret, result, retries, opKind, new_conn, c>>
    /\ UNCHANGED <<acquired, closeReturned, opFails, invocations, otherThanDb>>
    /\ UNCHANGED attempts

\* Mutation of EcInstall: the surplus connection is dropped without closing it.
EcInstallLeak(t) ==
    /\ pc[t] = "ec_install"
    /\ lock = 0
    /\ IF conn # 0 /\ ~Closed(conn)
         THEN UNCHANGED <<conn, conns>>
         ELSE conn' = new_conn[t] /\ UNCHANGED conns
    /\ new_conn' = [new_conn EXCEPT ![t] = 0]
    /\ pc' = [pc EXCEPT ![t] = AfterEnsurePc(t, "returned")]
    /\ result' = [result EXCEPT ![t] = AfterEnsureResult(t, "returned")]
    /\ UNCHANGED <<reconnect_max_wait_seconds, closing, lock, dbUp, outages,
                   ret, retries, opKind, c, delay, elapsed>>
    /\ UNCHANGED <<acquired, closeReturned, opFails, invocations, otherThanDb>>
    /\ UNCHANGED attempts

\* ensure_connected(), lines 107-116: install the new connection under the lock,
\* or close it when another thread connected first.
EcInstall(t) ==
    /\ pc[t] = "ec_install"
    /\ lock = 0
    /\ IF conn # 0 /\ ~Closed(conn)
         THEN conns' = ConnClose(conns, new_conn[t]) /\ UNCHANGED conn
         ELSE conn' = new_conn[t] /\ UNCHANGED conns
    /\ new_conn' = [new_conn EXCEPT ![t] = 0]
    /\ pc' = [pc EXCEPT ![t] = AfterEnsurePc(t, "returned")]
    /\ result' = [result EXCEPT ![t] = AfterEnsureResult(t, "returned")]
    /\ UNCHANGED <<reconnect_max_wait_seconds, closing, lock, dbUp, outages,
                   ret, retries, opKind, c, delay, elapsed>>
    /\ UNCHANGED <<acquired, closeReturned, opFails, invocations, otherThanDb>>
    /\ UNCHANGED attempts

\* the run() calls tried: the retries argument, what fn does when it does not
\* meet a connection-level error, and on how many of its first calls it
\* raises one although the connection is alive
RunRequests ==
    { [r |-> 0, kind |-> "ok", fails |-> 0], [r |-> 1, kind |-> "ok", fails |-> 0],
      [r |-> 0, kind |-> "data_error", fails |-> 0],
      [r |-> 1, kind |-> "data_error", fails |-> 0],
      [r |-> 1, kind |-> "ok", fails |-> 1],
      [r |-> MaxRetries, kind |-> "ok", fails |-> MaxRetries] }

\* fn(conn): what the operation does on connection id.
FnOutcome(t, id) ==
    IF conns[id] = "open" /\ invocations[t] >= opFails[t] THEN opKind[t] ELSE "conn_error"

\* A thread calls run(fn, retries=r): lines 133-134.
RunCall(t, r, kind, fails) ==
    /\ pc[t] = "idle"
    /\ retries' = [retries EXCEPT ![t] = r]
    /\ opKind' = [opKind EXCEPT ![t] = kind]
    /\ opFails' = [opFails EXCEPT ![t] = fails]
    /\ invocations' = [invocations EXCEPT ![t] = 0]
    /\ IF closing
         THEN /\ result' = [result EXCEPT ![t] = "db_closing"]
              /\ UNCHANGED pc
         ELSE /\ pc' = [pc EXCEPT ![t] = "run_lock"]
              /\ result' = [result EXCEPT ![t] = "none"]
    /\ UNCHANGED <<reconnect_max_wait_seconds, closing, lock, conn, conns, dbUp,
                   outages, ret, new_conn, c, delay, elapsed>>
    /\ UNCHANGED <<acquired, closeReturned, otherThanDb>>
    /\ UNCHANGED attempts

\* Mutation of RunStep: the body runs without taking the lock.
RunStepNoLock(t) ==
    /\ pc[t] \in {"run_lock", "run_ec1", "run_fn1", "run_except", "run_ec2", "run_fn2"}
    /\ CASE pc[t] = "run_lock" ->
              \* with self._lock:
              /\ UNCHANGED lock
              /\ pc' = [pc EXCEPT ![t] = "run_ec1"]
              /\ UNCHANGED <<conn, conns, ret, result>>
         [] pc[t] = "run_ec1" ->
              \* self.ensure_connected()
              /\ EnterEnsure(t, "run1")
              /\ UNCHANGED <<conn, conns>>
         [] pc[t] = "run_fn1" ->
              \* conn = self._conn; return fn(conn)
              /\ IF FnOutcome(t, conn) = "conn_error"
                   THEN /\ conns' = [conns EXCEPT ![conn] = "bad"]
                        /\ pc' = [pc EXCEPT ![t] = "run_except"]
                        /\ UNCHANGED <<lock, result>>
                   ELSE /\ result' = [result EXCEPT ![t] = FnOutcome(t, conn)]
                        /\ pc' = [pc EXCEPT ![t] = "idle"]
                        /\ lock' = 0
                        /\ UNCHANGED conns
              /\ UNCHANGED <<conn, ret>>
         [] pc[t] = "run_except" ->
              \* except (OperationalError, InterfaceError): lines 145-151
              /\ IF retries[t] <= 0 \/ closing
                   THEN /\ result' = [result EXCEPT ![t] = "conn_error"]
                        /\ pc' = [pc EXCEPT ![t] = "idle"]
                        /\ lock' = 0
                        /\ UNCHANGED <<conn, conns>>
                   ELSE /\ conns' = ConnClose(conns, conn)
                        /\ conn' = 0
                        /\ pc' = [pc EXCEPT ![t] = "run_ec2"]
                        /\ UNCHANGED <<lock, result>>
              /\ UNCHANGED ret
         [] pc[t] = "run_ec2" ->
              \* self.ensure_connected()
              /\ EnterEnsure(t, "run2")
              /\ UNCHANGED <<conn, conns>>
         [] pc[t] = "run_fn2" ->
              \* return fn(self._conn)
              /\ result' = [result EXCEPT ![t] = FnOutcome(t, conn)]
              /\ conns' = IF FnOutcome(t, conn) = "conn_error"
                            THEN [conns EXCEPT ![conn] = "bad"] ELSE conns
              /\ pc' = [pc EXCEPT ![t] = "idle"]
              /\ lock' = 0
              /\ UNCHANGED <<conn, ret>>
    /\ UNCHANGED <<reconnect_max_wait_seconds, closing, dbUp, outages, retries,
                   opKind, new_conn, c, delay, elapsed>>
    /\ invocations' = [invocations EXCEPT ![t] =
                          IF pc[t] \in {"run_fn1", "run_fn2"} THEN @ + 1 ELSE @]
    /\ UNCHANGED <<acquired, closeReturned, opFails, otherThanDb>>
    /\ UNCHANGED attempts

\* run(), lines 137-154: the next step of the body.
RunStep(t) ==
    /\ pc[t] \in {"run_lock", "run_ec1", "run_fn1", "run_except", "run_ec2", "run_fn2"}
    /\ CASE pc[t] = "run_lock" ->
              \* with self._lock:
              /\ lock = 0
              /\ lock' = t
              /\ pc' = [pc EXCEPT ![t] = "run_ec1"]
              /\ UNCHANGED <<conn, conns, ret, result>>
         [] pc[t] = "run_ec1" ->
              \* self.ensure_connected()
              /\ EnterEnsure(t, "run1")
              /\ UNCHANGED <<conn, conns>>
         [] pc[t] = "run_fn1" ->
              \* conn = self._conn; return fn(conn)
              /\ IF FnOutcome(t, conn) = "conn_error"
                   THEN /\ conns' = [conns EXCEPT ![conn] = "bad"]
                        /\ pc' = [pc EXCEPT ![t] = "run_except"]
                        /\ UNCHANGED <<lock, result>>
                   ELSE /\ result' = [result EXCEPT ![t] = FnOutcome(t, conn)]
                        /\ pc' = [pc EXCEPT ![t] = "idle"]
                        /\ lock' = 0
                        /\ UNCHANGED conns
              /\ UNCHANGED <<conn, ret>>
         [] pc[t] = "run_except" ->
              \* except (OperationalError, InterfaceError): lines 145-151
              /\ IF retries[t] <= 0 \/ closing
                   THEN /\ result' = [result EXCEPT ![t] = "conn_error"]
                        /\ pc' = [pc EXCEPT ![t] = "idle"]
                        /\ lock' = 0
                        /\ UNCHANGED <<conn, conns>>
                   ELSE /\ conns' = ConnClose(conns, conn)
                        /\ conn' = 0
                        /\ pc' = [pc EXCEPT ![t] = "run_ec2"]
                        /\ UNCHANGED <<lock, result>>
              /\ UNCHANGED ret
         [] pc[t] = "run_ec2" ->
              \* self.ensure_connected()
              /\ EnterEnsure(t, "run2")
              /\ UNCHANGED <<conn, conns>>
         [] pc[t] = "run_fn2" ->
              \* return fn(self._conn)
              /\ result' = [result EXCEPT ![t] = FnOutcome(t, conn)]
              /\ conns' = IF FnOutcome(t, conn) = "conn_error"
                            THEN [conns EXCEPT ![conn] = "bad"] ELSE conns
              /\ pc' = [pc EXCEPT ![t] = "idle"]
              /\ lock' = 0
              /\ UNCHANGED <<conn, ret>>
    /\ UNCHANGED <<reconnect_max_wait_seconds, closing, dbUp, outages, retries,
                   opKind, new_conn, c, delay, elapsed>>
    /\ invocations' = [invocations EXCEPT ![t] =
                          IF pc[t] \in {"run_fn1", "run_fn2"} THEN @ + 1 ELSE @]
    /\ UNCHANGED <<acquired, closeReturned, opFails, otherThanDb>>
    /\ UNCHANGED attempts

\* A thread calls close(): line 62.
CloseCall(t) ==
    /\ pc[t] = "idle"
    /\ closing' = TRUE
    /\ pc' = [pc EXCEPT ![t] = "close_acquire"]
    /\ result' = [result EXCEPT ![t] = "none"]
    /\ UNCHANGED <<reconnect_max_wait_seconds, lock, conn, conns, dbUp, outages,
                   ret, retries, opKind, new_conn, c, delay, elapsed>>
    /\ UNCHANGED <<acquired, closeReturned, opFails, invocations, otherThanDb>>
    /\ UNCHANGED attempts

\* close(), lines 64-69: the lock is acquired within 0.5 s.
CloseAcquire(t) ==
    /\ pc[t] = "close_acquire"
    /\ lock = 0
    /\ c' = [c EXCEPT ![t] = conn]
    /\ conn' = 0
    /\ pc' = [pc EXCEPT ![t] = "close_conn"]
    /\ UNCHANGED <<reconnect_max_wait_seconds, closing, lock, conns, dbUp,
                   outages, ret, result, retries, opKind, new_conn, delay,
                   elapsed>>
    /\ acquired' = [acquired EXCEPT ![t] = TRUE]
    /\ UNCHANGED <<closeReturned, opFails, invocations, otherThanDb>>
    /\ UNCHANGED attempts

\* Mutation of CloseAcquireTimeout: a plain acquire(), which never gives up.
CloseAcquireBlocking(t) ==
    /\ pc[t] = "close_acquire"
    /\ FALSE
    /\ UNCHANGED vars

\* close(), line 64: acquire(timeout=0.5) gives up while another thread holds the lock.
CloseAcquireTimeout(t) ==
    /\ pc[t] = "close_acquire"
    /\ lock # 0
    /\ c' = [c EXCEPT ![t] = 0]
    /\ pc' = [pc EXCEPT ![t] = "close_conn"]
    /\ UNCHANGED <<reconnect_max_wait_seconds, closing, lock, conn, conns, dbUp,
                   outages, ret, result, retries, opKind, new_conn, delay,
                   elapsed>>
    /\ acquired' = [acquired EXCEPT ![t] = FALSE]
    /\ UNCHANGED <<closeReturned, opFails, invocations, otherThanDb>>
    /\ UNCHANGED attempts

\* close(), lines 71-75: close the handle outside the lock.
CloseConn(t) ==
    /\ pc[t] = "close_conn"
    /\ conns' = IF c[t] # 0 THEN ConnClose(conns, c[t]) ELSE conns
    /\ c' = [c EXCEPT ![t] = 0]
    /\ pc' = [pc EXCEPT ![t] = "idle"]
    /\ result' = [result EXCEPT ![t] = "returned"]
    /\ UNCHANGED <<reconnect_max_wait_seconds, closing, lock, conn, dbUp,
                   outages, ret, retries, opKind, new_conn, delay, elapsed>>
    /\ closeReturned' = TRUE
    /\ UNCHANGED <<acquired, opFails, invocations, otherThanDb>>
    /\ UNCHANGED attempts

\* The database becomes unreachable; its open connections are dead from now on.
DbGoesDown ==
    /\ dbUp
    /\ outages < MaxOutages
    /\ dbUp' = FALSE
    /\ outages' = outages + 1
    /\ conns' = [id \in ConnIds |-> IF conns[id] = "open" THEN "broken" ELSE conns[id]]
    /\ UNCHANGED <<reconnect_max_wait_seconds, closing, lock, conn, pc, ret,
                   result, retries, opKind, new_conn, c, delay, elapsed>>
    /\ UNCHANGED <<acquired, closeReturned, opFails, invocations, otherThanDb>>
    /\ UNCHANGED attempts

\* The database is reachable again.
DbComesUp ==
    /\ ~dbUp
    /\ dbUp' = TRUE
    /\ UNCHANGED <<reconnect_max_wait_seconds, closing, lock, conn, conns,
                   outages, pc, ret, result, retries, opKind, new_conn, c,
                   delay, elapsed>>
    /\ UNCHANGED <<acquired, closeReturned, opFails, invocations, otherThanDb>>
    /\ UNCHANGED attempts

\* the seconds a failing connection attempt takes: refused at once, or after
\* one second; under the long deadline only attempts refused at once are tried
FailTimes == IF reconnect_max_wait_seconds = LongReconnectWait THEN {0} ELSE {0, 1}

\* One step of thread t inside a call it has started.
DbThreadStep(t) ==
    \/ EcQuickCheck(t)
    \/ EcLoopTop(t)
    \/ EcConnectOk(t)
    \/ \E took \in FailTimes : EcConnectFail(t, took)
    \/ EcWait(t)
    \/ EcInstall(t)
    \/ RunStep(t)
    \/ CloseAcquire(t)
    \/ CloseAcquireTimeout(t)
    \/ CloseConn(t)

NextDb ==
    \/ \E t \in DbThreads : EnsureConnected(t)
    \/ \E t \in DbThreads, req \in RunRequests : RunCall(t, req.r, req.kind, req.fails)
    \/ \E t \in DbThreads : CloseCall(t)
    \/ \E t \in DbThreads : DbThreadStep(t)
    \/ DbGoesDown
    \/ DbComesUp

(***************************************************************************)
(* SonosPlayback                                                           *)
(***************************************************************************)
Addrs == {"a1", "a2", "a3"}

\* the configured lists: every sequence of at most MaxSpeakerIps addresses
SpeakerIpLists == UNION {[1..k -> Addrs] : k \in 0..MaxSpeakerIps}

\* the groupings: a coordinator is its own coordinator
Groupings == {f \in [Addrs -> Addrs] : \A a \in Addrs : f[f[a]] = f[a]}

\* an out-of-range override for a1, an override for a2, none for a3
VolumeMaps == {("a1" :> 150) @@ ("a2" :> 20)}
VolumeArgs == {<<>>, <<30>>}
\* the concurrency arguments tried: negative, zero and MaxConcurrency
ConcurrencyArgs == {-1, 0, MaxConcurrency}
\* the expected_duration_seconds arguments tried: None, zero and a known duration
DurationArgs == {<<>>, <<0>>, <<2>>}

InitPlayback ==
    /\ speaker_ips \in SpeakerIpLists
    /\ default_volume = 40
    /\ speaker_volume_map \in VolumeMaps
    /\ coordOf \in Groupings
    /\ pbPc = "idle"
    /\ volume = <<>>
    /\ concurrency = 0
    /\ idx = 0
    /\ seen = {}
    /\ out = <<>>
    /\ taskPc = <<>>
    /\ taskErr = <<>>
    /\ plays = [a \in Addrs |-> 0]
    /\ volCmd = [a \in Addrs |-> <<>>]
    /\ stopped = [a \in Addrs |-> 0]
    /\ restoreRaised = {}
    /\ stopRaised = {}
    /\ callThreads = {}
    /\ expected_duration_seconds = <<>>
    /\ taskLog = <<>>
    /\ playingBefore \in SUBSET Addrs
    /\ was_playing = <<>>
    /\ settled = <<>>
    /\ resumed = <<>>
    /\ lookupRaised = FALSE
    /\ faults = 0

\* the orchestrator as constructed, for the specifications of the other components
ParkedPlayback ==
    /\ InitPlayback
    /\ speaker_ips = <<>>
    /\ playingBefore = {}
    /\ coordOf = [a \in Addrs |-> a]

\* max(0, min(100, int(vol)))
ClampVolume(v) == Max(0, Min(100, v))

\* lines 137-141: d = SoCo(ip); coord = d.group.coordinator, or d when the
\* lookup raises.  Devices are identified by their address.
Coordinator(ip, raises) == IF raises THEN ip ELSE coordOf[ip]

\* Mutation of TargetKey: the key is the configured address.
TargetKeyOwn(coord, ip) == ip

\* line 143: key = getattr(coord, "ip_address", None) or ip
TargetKey(coord, ip) == coord

\* lines 145-150: the volume recorded for the configured address ip
MemberVolume(ip, key) ==
    ClampVolume(IF ip \in DOMAIN speaker_volume_map THEN speaker_volume_map[ip]
                ELSE IF key \in DOMAIN speaker_volume_map THEN speaker_volume_map[key]
                ELSE default_volume)

\* Mutation of SemaphoreSize: the gate admits every target at once.
SemaphoreSizeUnbounded == Len(out)

\* asyncio.Semaphore(max(1, int(concurrency)))
SemaphoreSize == Max(1, concurrency)

Targets == 1..Len(out)

\* targets inside "async with sem"
Admitted == {i \in DOMAIN taskPc : taskPc[i] \in {"snapshot", "play", "wait", "restore"}}

\* play_url(url, volume=vol, concurrency=conc): line 45, entering _resolve_targets.
PlayUrl(vol, conc, dur) ==
    /\ pbPc = "idle"
    /\ volume' = vol
    /\ concurrency' = conc
    /\ pbPc' = "resolve"
    /\ idx' = 1
    /\ seen' = {}
    /\ out' = <<>>
    /\ UNCHANGED <<speaker_ips, default_volume, speaker_volume_map, coordOf,
                   taskPc, taskErr, plays, volCmd, stopped, lookupRaised, faults>>
    /\ expected_duration_seconds' = dur
    /\ UNCHANGED <<restoreRaised, stopRaised, callThreads, taskLog, otherThanPlayback>>
    /\ UNCHANGED <<playingBefore, was_playing, settled, resumed>>

\* _resolve_targets, lines 136-161: one iteration of the for loop.
ResolveStep(raises) ==
    /\ pbPc = "resolve"
    /\ idx <= Len(speaker_ips)
    /\ raises => faults < MaxDeviceFaults
    /\ LET ip    == speaker_ips[idx]
           coord == Coordinator(ip, raises)
           key   == TargetKey(coord, ip)
           vol   == MemberVolume(ip, key)
       IN  IF key \in seen
             THEN /\ out' = [i \in Targets |->
                               IF out[i].key = key
                                 THEN [out[i] EXCEPT !.member_volumes = (ip :> vol) @@ @]
                                 ELSE out[i]]
                  /\ UNCHANGED seen
             ELSE /\ seen' = seen \cup {key}
                  /\ out' = Append(out, [device |-> coord, volume |-> vol, key |-> key,
                                         member_volumes |-> (ip :> vol)])
    /\ idx' = idx + 1
    /\ lookupRaised' = (lookupRaised \/ raises)
    /\ faults' = IF raises THEN faults + 1 ELSE faults
    /\ UNCHANGED <<speaker_ips, default_volume, speaker_volume_map, coordOf,
                   pbPc, volume, concurrency, taskPc, taskErr, plays, volCmd,
                   stopped>>
    /\ callThreads' = callThreads \cup {<<"group.coordinator", "loop">>}
    /\ UNCHANGED <<restoreRaised, stopRaised, expected_duration_seconds, taskLog, otherThanPlayback>>
    /\ UNCHANGED <<playingBefore, was_playing, settled, resumed>>

\* play_url, lines 45-68: _resolve_targets has returned; return when there are
\* no targets, else create one run_one per target and await them.
PlayUrlGather ==
    /\ pbPc = "resolve"
    /\ idx > Len(speaker_ips)
    /\ pbPc' = IF out = <<>> THEN "returned" ELSE "running"
    /\ taskPc' = [i \in Targets |-> "queued"]
    /\ taskErr' = [i \in Targets |-> FALSE]
    /\ UNCHANGED <<speaker_ips, default_volume, speaker_volume_map, coordOf,
                   volume, concurrency, idx, seen, out, plays, volCmd, stopped,
                   lookupRaised, faults>>
    /\ taskLog' = [i \in Targets |-> <<>>]
    /\ UNCHANGED <<restoreRaised, stopRaised, callThreads, expected_duration_seconds, otherThanPlayback>>
    /\ was_playing' = [i \in Targets |-> FALSE]
    /\ settled' = [i \in Targets |-> "none"]
    /\ resumed' = [i \in Targets |-> 0]
    /\ UNCHANGED playingBefore

\* Mutation of RunOneAcquire: once the request has raised, waiting targets
\* are not started any more.
RunOneAcquireUnlessRaised(i) ==
    /\ pbPc = "running"
    /\ i \in DOMAIN taskPc /\ taskPc[i] = "queued"
    /\ \A j \in Targets : j < i => taskPc[j] # "queued"
    /\ Cardinality(Admitted) < SemaphoreSize
    /\ taskPc' = [taskPc EXCEPT ![i] = "snapshot"]
    /\ UNCHANGED <<speaker_ips, default_volume, speaker_volume_map, coordOf,
                   pbPc, volume, concurrency, idx, seen, out, taskErr, plays,
                   volCmd, stopped, lookupRaised, faults>>
    /\ UNCHANGED <<restoreRaised, stopRaised, callThreads, expected_duration_seconds,
                   taskLog, otherThanPlayback>>
    /\ UNCHANGED <<playingBefore, was_playing, settled, resumed>>

\* run_one, line 53: "async with sem" admits the longest-waiting target.
RunOneAcquire(i) ==
    /\ pbPc \in {"running", "raised"}
    /\ i \in DOMAIN taskPc /\ taskPc[i] = "queued"
    /\ \A j \in Targets : j < i => taskPc[j] # "queued"
    /\ Cardinality(Admitted) < SemaphoreSize
    /\ taskPc' = [taskPc EXCEPT ![i] = "snapshot"]
    /\ UNCHANGED <<speaker_ips, default_volume, speaker_volume_map, coordOf,
                   pbPc, volume, concurrency, idx, seen, out, taskErr, plays,
                   volCmd, stopped, lookupRaised, faults>>
    /\ UNCHANGED <<restoreRaised, stopRaised, callThreads, expected_duration_seconds,
                   taskLog, otherThanPlayback>>
    /\ UNCHANGED <<playingBefore, was_playing, settled, resumed>>

\* Mutation of VolumeWrites: only the target's device is set, to the volume
\* of the first address seen.
VolumeWritesDeviceOnly(i) ==
    [volCmd EXCEPT ![out[i].device] = IF volume = <<>> THEN <<out[i].volume>> ELSE volume]

\* lines 86-98: the volumes _play_url_blocking writes for target i
VolumeWrites(i) ==
    IF volume = <<>>
      THEN [a \in Addrs |->
              IF a \in DOMAIN out[i].member_volumes
                THEN <<ClampVolume(out[i].member_volumes[a])>> ELSE volCmd[a]]
      ELSE [volCmd EXCEPT ![out[i].device] = volume]

\* _play_url_blocking, lines 81-98: snapshot, then the volumes.
TaskSnapshot(i, raises) ==
    /\ i \in DOMAIN taskPc /\ taskPc[i] = "snapshot"
    /\ raises => faults < MaxDeviceFaults
    /\ IF raises
         THEN /\ taskPc' = [taskPc EXCEPT ![i] = "restore"]
              /\ taskErr' = [taskErr EXCEPT ![i] = TRUE]
              /\ faults' = faults + 1
              /\ UNCHANGED volCmd
         ELSE /\ taskPc' = [taskPc EXCEPT ![i] = "play"]
              /\ volCmd' = VolumeWrites(i)
              /\ UNCHANGED <<taskErr, faults>>
    /\ UNCHANGED <<speaker_ips, default_volume, speaker_volume_map, coordOf,
                   pbPc, volume, concurrency, idx, seen, out, plays, stopped,
                   lookupRaised>>
    /\ taskLog' = [taskLog EXCEPT ![i] =
                      IF raises THEN @ \o <<"snapshot">> ELSE @ \o <<"snapshot", "set_volume">>]
    /\ callThreads' = callThreads \cup
         ({<<"get_current_transport_info", "worker">>, <<"snapshot", "worker">>}
            \cup (IF raises THEN {} ELSE {<<"volume", "worker">>}))
    /\ UNCHANGED <<restoreRaised, stopRaised, expected_duration_seconds, otherThanPlayback>>
    /\ \E queryRaises \in BOOLEAN :
         was_playing' = [was_playing EXCEPT ![i] = out[i].device \in playingBefore /\ ~queryRaises]
    /\ UNCHANGED <<playingBefore, settled, resumed>>

\* _play_url_blocking, line 99: spk.play_uri(url, title=title, start=True)
TaskPlay(i, raises) ==
    /\ i \in DOMAIN taskPc /\ taskPc[i] = "play"
    /\ raises => faults < MaxDeviceFaults
    /\ plays' = [plays EXCEPT ![out[i].device] = @ + 1]
    /\ IF raises
         THEN /\ taskPc' = [taskPc EXCEPT ![i] = "restore"]
              /\ taskErr' = [taskErr EXCEPT ![i] = TRUE]
              /\ faults' = faults + 1
         ELSE /\ taskPc' = [taskPc EXCEPT ![i] = "wait"]
              /\ UNCHANGED <<taskErr, faults>>
    /\ UNCHANGED <<speaker_ips, default_volume, speaker_volume_map, coordOf,
                   pbPc, volume, concurrency, idx, seen, out, volCmd, stopped,
                   lookupRaised>>
    /\ taskLog' = [taskLog EXCEPT ![i] = @ \o <<"play">>]
    /\ callThreads' = callThreads \cup {<<"play_uri", "worker">>}
    /\ UNCHANGED <<restoreRaised, stopRaised, expected_duration_seconds, otherThanPlayback>>
    /\ UNCHANGED <<playingBefore, was_playing, settled, resumed>>

\* _play_url_blocking, lines 100-110: _wait_for_playing, then the sleep for a
\* known duration when expected_duration_seconds is a number above zero and
\* the polling of _wait_for_done_or_timeout otherwise, then the tail padding
\* (tail_padding_seconds is above zero, as the default and the settings are).
WaitActions ==
    <<"wait_for_playing",
      IF expected_duration_seconds # <<>> /\ expected_duration_seconds[1] > 0
        THEN "sleep" ELSE "poll_until_done",
      "tail_padding">>

\* Mutation of TaskWait: the end of the clip is always polled for.
TaskWaitPollOnly(i) ==
    /\ i \in DOMAIN taskPc /\ taskPc[i] = "wait"
    /\ taskPc' = [taskPc EXCEPT ![i] = "restore"]
    /\ UNCHANGED <<speaker_ips, default_volume, speaker_volume_map, coordOf,
                   pbPc, volume, concurrency, idx, seen, out, taskErr, plays,
                   volCmd, stopped, lookupRaised, faults>>
    /\ taskLog' = [taskLog EXCEPT ![i] = @ \o <<"wait_for_playing", "poll_until_done", "tail_padding">>]
    /\ callThreads' = callThreads \cup {<<"get_current_transport_info", "worker">>}
    /\ UNCHANGED <<restoreRaised, stopRaised, expected_duration_seconds, otherThanPlayback>>
    /\ UNCHANGED <<playingBefore, was_playing, settled, resumed>>

\* _play_url_blocking, lines 100-110: the waits and sleeps are over.
TaskWait(i) ==
    /\ i \in DOMAIN taskPc /\ taskPc[i] = "wait"
    /\ taskPc' = [taskPc EXCEPT ![i] = "restore"]
    /\ UNCHANGED <<speaker_ips, default_volume, speaker_volume_map, coordOf,
                   pbPc, volume, concurrency, idx, seen, out, taskErr, plays,
                   volCmd, stopped, lookupRaised, faults>>
    /\ taskLog' = [taskLog EXCEPT ![i] = @ \o WaitActions]
    /\ callThreads' = callThreads \cup {<<"get_current_transport_info", "worker">>}
    /\ UNCHANGED <<restoreRaised, stopRaised, expected_duration_seconds, otherThanPlayback>>
    /\ UNCHANGED <<playingBefore, was_playing, settled, resumed>>

\* Mutation of TaskRestore: the device is stopped whether or not the restore raised.
TaskRestoreAlwaysStop(i, raises, stopRaises) ==
    /\ i \in DOMAIN taskPc /\ taskPc[i] = "restore"
    /\ raises => faults < MaxDeviceFaults
    /\ stopRaises => raises
    /\ taskPc' = [taskPc EXCEPT ![i] = "done"]
    /\ restoreRaised' = IF raises THEN restoreRaised \cup {out[i].device} ELSE restoreRaised
    /\ stopped' = [stopped EXCEPT ![out[i].device] = @ + 1]
    /\ stopRaised' = IF stopRaises THEN stopRaised \cup {out[i].device} ELSE stopRaised
    /\ faults' = faults + (IF raises THEN 1 ELSE 0) + (IF stopRaises THEN 1 ELSE 0)
    /\ pbPc' = IF pbPc = "running" /\ taskErr[i] THEN "raised"
               ELSE IF pbPc = "running" /\ \A j \in Targets : taskPc'[j] = "done"
                 THEN "returned"
               ELSE pbPc
    /\ UNCHANGED <<speaker_ips, default_volume, speaker_volume_map, coordOf,
                   volume, concurrency, idx, seen, out, taskErr, plays, volCmd,
                   lookupRaised>>
    /\ taskLog' = [taskLog EXCEPT ![i] = @ \o <<"restore">>]
    /\ callThreads' = callThreads \cup
         ({<<"restore", "worker">>} \cup (IF TRUE THEN {<<"stop", "worker">>} ELSE {}))
    /\ UNCHANGED <<expected_duration_seconds, otherThanPlayback>>
    /\ \E found \in BOOLEAN :
         IF ~raises /\ was_playing[i]
           THEN /\ settled' = [settled EXCEPT ![i] = IF found THEN "playing" ELSE "not_playing"]
                /\ resumed' = [resumed EXCEPT ![i] = IF found THEN @ ELSE @ + 1]
           ELSE UNCHANGED <<settled, resumed>>
    /\ UNCHANGED <<playingBefore, was_playing>>

\* Mutation of TaskRestore: the resume command is issued whatever was_playing is.
TaskRestoreAlwaysResume(i, raises, stopRaises) ==
    /\ i \in DOMAIN taskPc /\ taskPc[i] = "restore"
    /\ raises => faults < MaxDeviceFaults
    /\ stopRaises => raises
    /\ taskPc' = [taskPc EXCEPT ![i] = "done"]
    /\ restoreRaised' = IF raises THEN restoreRaised \cup {out[i].device} ELSE restoreRaised
    /\ stopped' = IF raises THEN [stopped EXCEPT ![out[i].device] = @ + 1] ELSE stopped
    /\ stopRaised' = IF stopRaises THEN stopRaised \cup {out[i].device} ELSE stopRaised
    /\ faults' = faults + (IF raises THEN 1 ELSE 0) + (IF stopRaises THEN 1 ELSE 0)
    /\ pbPc' = IF pbPc = "running" /\ taskErr[i] THEN "raised"
               ELSE IF pbPc = "running" /\ \A j \in Targets : taskPc'[j] = "done"
                 THEN "returned"
               ELSE pbPc
    /\ UNCHANGED <<speaker_ips, default_volume, speaker_volume_map, coordOf,
                   volume, concurrency, idx, seen, out, taskErr, plays, volCmd,
                   lookupRaised>>
    /\ taskLog' = [taskLog EXCEPT ![i] = @ \o <<"restore">>]
    /\ callThreads' = callThreads \cup
         ({<<"restore", "worker">>} \cup (IF raises THEN {<<"stop", "worker">>} ELSE {}))
    /\ UNCHANGED <<expected_duration_seconds, otherThanPlayback>>
    /\ \E found \in BOOLEAN :
         IF ~raises
           THEN /\ settled' = [settled EXCEPT ![i] = IF found THEN "playing" ELSE "not_playing"]
                /\ resumed' = [resumed EXCEPT ![i] = IF found THEN @ ELSE @ + 1]
           ELSE UNCHANGED <<settled, resumed>>
    /\ UNCHANGED <<playingBefore, was_playing>>

\* _play_url_blocking, lines 111-126, and the end of run_one: restore the
\* snapshot; when that raises, stop the device, absorbing an error of the
\* stop itself; leave the semaphore.  The gather of line 68 raises with the
\* first failed target and returns when every target has finished without
\* one.
TaskRestore(i, raises, stopRaises) ==
    /\ i \in DOMAIN taskPc /\ taskPc[i] = "restore"
    /\ raises => faults < MaxDeviceFaults
    /\ stopRaises => raises
    /\ taskPc' = [taskPc EXCEPT ![i] = "done"]
    /\ restoreRaised' = IF raises THEN restoreRaised \cup {out[i].device} ELSE restoreRaised
    /\ stopped' = IF raises THEN [stopped EXCEPT ![out[i].device] = @ + 1] ELSE stopped
    /\ stopRaised' = IF stopRaises THEN stopRaised \cup {out[i].device} ELSE stopRaised
    /\ faults' = faults + (IF raises THEN 1 ELSE 0) + (IF stopRaises THEN 1 ELSE 0)
    /\ pbPc' = IF pbPc = "running" /\ taskErr[i] THEN "raised"
               ELSE IF pbPc = "running" /\ \A j \in Targets : taskPc'[j] = "done"
                 THEN "returned"
               ELSE pbPc
    /\ UNCHANGED <<speaker_ips, default_volume, speaker_volume_map, coordOf,
                   volume, concurrency, idx, seen, out, taskErr, plays, volCmd,
                   lookupRaised>>
    /\ taskLog' = [taskLog EXCEPT ![i] = @ \o <<"restore">>]
    /\ callThreads' = callThreads \cup
         ({<<"restore", "worker">>} \cup (IF raises THEN {<<"stop", "worker">>} ELSE {}))
    /\ UNCHANGED <<expected_duration_seconds, otherThanPlayback>>
    /\ \E found \in BOOLEAN :
         IF ~raises /\ was_playing[i]
           THEN /\ settled' = [settled EXCEPT ![i] = IF found THEN "playing" ELSE "not_playing"]
                /\ resumed' = [resumed EXCEPT ![i] = IF found THEN @ ELSE @ + 1]
           ELSE UNCHANGED <<settled, resumed>>
    /\ UNCHANGED <<playingBefore, was_playing>>

\* One step of some target's routine: the event loop runs the tasks it has
\* created and the executor's threads run.
TaskStep ==
    \/ \E i \in Targets : RunOneAcquire(i)
    \/ \E i \in Targets, raises \in BOOLEAN : TaskSnapshot(i, raises)
    \/ \E i \in Targets, raises \in BOOLEAN : TaskPlay(i, raises)
    \/ \E i \in Targets : TaskWait(i)
    \/ \E i \in Targets, raises \in BOOLEAN, stopRaises \in BOOLEAN :
          TaskRestore(i, raises, stopRaises)

NextPlayback ==
    \/ \E vol \in VolumeArgs, conc \in ConcurrencyArgs, dur \in DurationArgs :
          PlayUrl(vol, conc, dur)
    \/ \E raises \in BOOLEAN : ResolveStep(raises)
    \/ PlayUrlGather
    \/ TaskStep

(***************************************************************************)
(* AudioHost                                                               *)
(***************************************************************************)
\* seconds as clock ticks: the clock counts half seconds
Ticks(seconds) == 2 * seconds

HostCallers == 1..NumHostCallers
TtlChoices == {1, 6}
CleanupIntervalChoices == {0, 1, 2}

\* no GET was answered at the current time
NoFetch == [name |-> 0, status |-> 0, swept |-> FALSE]

InitHost ==
    /\ ttl_seconds \in TtlChoices
    /\ cleanup_interval_seconds \in CleanupIntervalChoices
    /\ now = 0
    /\ httpd = "none"
    /\ root = "none"
    /\ stop = FALSE
    /\ expires_at = <<>>
    /\ files = <<>>
    /\ callers \in {1, NumHostCallers}
    /\ hostPc = [t \in HostCallers |-> "idle"]
    /\ unique = [t \in HostCallers |-> 0]
    /\ starts = 0
    /\ urlBase = <<>>
    /\ writtenDir = <<>>
    /\ hostCalls = 0
    /\ hostedAt = <<>>
    /\ sweepPc = "none"
    /\ sweepWake = 0
    /\ lastFetch = NoFetch
    /\ callsAtClose = -1

\* the host as constructed, for the specifications of the other components
ParkedHost == InitHost /\ ttl_seconds = 1 /\ cleanup_interval_seconds = 0 /\ callers = 1

\* max(5.0, self._ttl_seconds)
TtlWindow == Ticks(Max(5, ttl_seconds))

\* time.sleep(max(1.0, float(self._cleanup_interval_seconds)))
SweepSleep == Ticks(Max(1, cleanup_interval_seconds))

\* f without the names in S
Without(f, S) == [n \in DOMAIN f \ S |-> f[n]]

\* Mutation of HostBytesWrite: _ensure_started() does not look whether the
\* server exists already.
HostBytesWriteAlwaysStart(t) ==
    /\ t <= callers
    /\ hostPc[t] = "idle"
    /\ hostCalls < MaxFiles
    /\ hostCalls' = hostCalls + 1
    /\ IF FALSE
         THEN UNCHANGED <<httpd, root, stop, sweepPc, sweepWake, starts>>
         ELSE /\ stop' = FALSE
              /\ root' = "present"
              /\ httpd' = "serving"
              /\ sweepPc' = "sleeping"
              /\ sweepWake' = now + SweepSleep
              /\ starts' = starts + 1
    /\ IF root' = "present"
         THEN /\ files' = ((hostCalls + 1) :> now) @@ files
              /\ writtenDir' = ((hostCalls + 1) :> starts') @@ writtenDir
              /\ unique' = [unique EXCEPT ![t] = hostCalls + 1]
              /\ hostPc' = [hostPc EXCEPT ![t] = "record"]
         ELSE UNCHANGED <<files, writtenDir, unique, hostPc>>
    /\ UNCHANGED <<ttl_seconds, cleanup_interval_seconds, now, expires_at,
                   hostedAt, lastFetch>>
    /\ UNCHANGED <<callsAtClose, callers, urlBase, otherThanHost>>

\* host_bytes(), lines 58-66: start the server on first use, write the file.
\* path.write_bytes raises when the temp directory is gone.
HostBytesWrite(t) ==
    /\ t <= callers
    /\ hostPc[t] = "idle"
    /\ hostCalls < MaxFiles
    /\ hostCalls' = hostCalls + 1
    /\ IF httpd # "none" /\ root # "none"
         THEN UNCHANGED <<httpd, root, stop, sweepPc, sweepWake, starts>>
         ELSE /\ stop' = FALSE
              /\ root' = "present"
              /\ httpd' = "serving"
              /\ sweepPc' = "sleeping"
              /\ sweepWake' = now + SweepSleep
              /\ starts' = starts + 1
    /\ IF root' = "present"
         THEN /\ files' = ((hostCalls + 1) :> now) @@ files
              /\ writtenDir' = ((hostCalls + 1) :> starts') @@ writtenDir
              /\ unique' = [unique EXCEPT ![t] = hostCalls + 1]
              /\ hostPc' = [hostPc EXCEPT ![t] = "record"]
         ELSE UNCHANGED <<files, writtenDir, unique, hostPc>>
    /\ UNCHANGED <<ttl_seconds, cleanup_interval_seconds, now, expires_at,
                   hostedAt, lastFetch>>
    /\ UNCHANGED <<callsAtClose, callers, urlBase, otherThanHost>>

\* host_bytes(), lines 69-74: record the expiry under the lock, return the URL.
HostBytesRecord(t) ==
    /\ hostPc[t] = "record"
    /\ expires_at' = (unique[t] :> (now + TtlWindow)) @@ expires_at
    /\ hostedAt' = (unique[t] :> now) @@ hostedAt
    /\ urlBase' = (unique[t] :> starts) @@ urlBase
    /\ hostPc' = [hostPc EXCEPT ![t] = "idle"]
    /\ unique' = [unique EXCEPT ![t] = 0]
    /\ UNCHANGED <<ttl_seconds, cleanup_interval_seconds, now, httpd, root,
                   stop, files, hostCalls, sweepPc, sweepWake, lastFetch>>
    /\ UNCHANGED <<callsAtClose, callers, starts, writtenDir, otherThanHost>>

\* the cleanup thread's sleep is over and its sweep has not run yet
SweepDue == sweepPc = "sleeping" /\ now >= sweepWake

\* line 142: the names whose recorded expiry has passed
Expired == {n \in DOMAIN expires_at : expires_at[n] <= now}

\* lines 155-163: the files not modified within the TTL window
Orphans == {n \in DOMAIN files : files[n] <= now - TtlWindow}

\* _cleanup_loop(), lines 135-167: the sleep is over; one sweep, then the
\* loop condition.
Sweep ==
    /\ SweepDue
    /\ expires_at' = Without(expires_at, Expired)
    /\ files' = IF root = "none" \/ Expired = {}
                  THEN files
                  ELSE Without(files, Expired \cup Orphans)
    /\ IF stop
         THEN sweepPc' = "ended" /\ UNCHANGED sweepWake
         ELSE sweepPc' = "sleeping" /\ sweepWake' = now + SweepSleep
    /\ UNCHANGED <<ttl_seconds, cleanup_interval_seconds, now, httpd, root,
                   stop, hostPc, unique, hostCalls, hostedAt, lastFetch>>
    /\ UNCHANGED <<callsAtClose, callers, starts, urlBase, writtenDir, otherThanHost>>

\* Mutation of HostClose: the temp directory is left in place.
HostCloseKeepsDirectory ==
    /\ stop' = TRUE
    /\ httpd' = IF httpd # "none" THEN "closed" ELSE httpd
    /\ UNCHANGED <<root, files>>
    /\ UNCHANGED <<ttl_seconds, cleanup_interval_seconds, now, expires_at,
                   hostPc, unique, hostCalls, hostedAt, sweepPc, sweepWake,
                   lastFetch>>
    /\ callsAtClose' = hostCalls
    /\ UNCHANGED <<callers, starts, urlBase, writtenDir, otherThanHost>>

\* close(), lines 93-104.
HostClose ==
    /\ stop' = TRUE
    /\ httpd' = IF httpd # "none" THEN "closed" ELSE httpd
    /\ root' = IF root # "none" THEN "removed" ELSE root
    /\ files' = <<>>
    /\ UNCHANGED <<ttl_seconds, cleanup_interval_seconds, now, expires_at,
                   hostPc, unique, hostCalls, hostedAt, sweepPc, sweepWake,
                   lastFetch>>
    /\ callsAtClose' = hostCalls
    /\ UNCHANGED <<callers, starts, urlBase, writtenDir, otherThanHost>>

\* the HTTP status of GET <base_url>/<name>: 0 stands for no response
FetchStatus(name) ==
    IF httpd # "serving" THEN 0
    ELSE IF name \in DOMAIN files THEN 200
    ELSE 404

\* A device fetches a URL that host_bytes() returned.
Fetch(name) ==
    /\ name \in DOMAIN hostedAt
    /\ lastFetch' = [name |-> name, status |-> FetchStatus(name), swept |-> ~SweepDue]
    /\ UNCHANGED <<ttl_seconds, cleanup_interval_seconds, now, httpd, root,
                   stop, expires_at, files, hostPc, unique, hostCalls,
                   hostedAt, sweepPc, sweepWake>>
    /\ UNCHANGED <<callsAtClose, callers, starts, urlBase, writtenDir, otherThanHost>>

\* Half a second passes.  The cleanup thread's sleep is punctual: the clock
\* does not pass its wake-up time before the sweep has run.
HostTick ==
    /\ now < MaxTime
    /\ ~SweepDue
    /\ now' = now + 1
    /\ lastFetch' = NoFetch
    /\ UNCHANGED <<ttl_seconds, cleanup_interval_seconds, httpd, root, stop,
                   expires_at, files, hostPc, unique, hostCalls, hostedAt,
                   sweepPc, sweepWake>>
    /\ UNCHANGED <<callsAtClose, callers, starts, urlBase, writtenDir, otherThanHost>>

NextHost ==
    \/ \E t \in HostCallers : HostBytesWrite(t)
    \/ \E t \in HostCallers : HostBytesRecord(t)
    \/ Sweep
    \/ HostClose
    \/ \E name \in 1..MaxFiles : Fetch(name)
    \/ HostTick

(***************************************************************************)
(* sonos gateway                                                           *)
(***************************************************************************)
\* Texts are sequences of characters.
DigitChars == <<"0", "1", "2", "3", "4", "5", "6", "7", "8", "9">>
IsDigit(ch) == \E i \in DOMAIN DigitChars : DigitChars[i] = ch
DigitValue(ch) == (CHOOSE i \in DOMAIN DigitChars : DigitChars[i] = ch) - 1

\* str.strip()
RECURSIVE StripLeft(_)
StripLeft(s) == IF s # <<>> /\ Head(s) = " " THEN StripLeft(Tail(s)) ELSE s
RECURSIVE StripRight(_)
StripRight(s) ==
    IF s # <<>> /\ s[Len(s)] = " " THEN StripRight(SubSeq(s, 1, Len(s) - 1)) ELSE s
Strip(s) == StripRight(StripLeft(s))

\* str.split(":")
RECURSIVE SplitColon(_)
SplitColon(s) ==
    IF \A i \in DOMAIN s : s[i] # ":"
      THEN <<s>>
      ELSE LET i == CHOOSE k \in DOMAIN s : s[k] = ":" /\ \A j \in 1..(k - 1) : s[j] # ":"
           IN  <<SubSeq(s, 1, i - 1)>> \o SplitColon(SubSeq(s, i + 1, Len(s)))

RECURSIVE DigitsValue(_)
DigitsValue(s) ==
    IF s = <<>> THEN 0
    ELSE DigitsValue(SubSeq(s, 1, Len(s) - 1)) * 10 + DigitValue(s[Len(s)])

\* int(text): surrounding blanks, an optional sign, then decimal digits;
\* anything else raises ValueError (ok = FALSE).
ParseInt(s) ==
    LET t      == Strip(s)
        signed == t # <<>> /\ Head(t) \in {"+", "-"}
        body   == IF signed THEN Tail(t) ELSE t
    IN  IF body = <<>> \/ \E i \in DOMAIN body : ~IsDigit(body[i])
          THEN [ok |-> FALSE, val |-> 0]
          ELSE [ok |-> TRUE,
                val |-> IF signed /\ Head(t) = "-" THEN 0 - DigitsValue(body)
                        ELSE DigitsValue(body)]

\* _parse_hhmm(s): minutes since midnight, or ValueError (ok = FALSE)
ParseHhmm(s) ==
    LET parts == SplitColon(Strip(s))
    IN  IF Len(parts) # 2 THEN [ok |-> FALSE, val |-> 0]
        ELSE LET hh == ParseInt(parts[1])
                 mm == ParseInt(parts[2])
             IN  IF ~hh.ok \/ ~mm.ok THEN [ok |-> FALSE, val |-> 0]
                 ELSE IF hh.val < 0 \/ hh.val > 23 \/ mm.val < 0 \/ mm.val > 59
                   THEN [ok |-> FALSE, val |-> 0]
                 ELSE [ok |-> TRUE, val |-> hh.val * 60 + mm.val]

\* Mutation of IsQuietNow: a window that crosses midnight is tested like one
\* that does not.
IsQuietNowNoWrap(t, q) ==
    LET minute     == t.hour * 60 + t.minute
        is_weekend == t.weekday >= 5
        start      == ParseHhmm(IF is_weekend THEN q.weekend_start ELSE q.weekday_start)
        end        == ParseHhmm(IF is_weekend THEN q.weekend_end ELSE q.weekday_end)
    IN  IF ~start.ok \/ ~end.ok THEN [raised |-> TRUE, quiet |-> FALSE]
        ELSE IF start.val = end.val THEN [raised |-> FALSE, quiet |-> TRUE]
        ELSE [raised |-> FALSE, quiet |-> start.val <= minute /\ minute < end.val]

\* _is_quiet_now(now_local=t, ...) on the settings q: its result, or raised
IsQuietNow(t, q) ==
    LET minute     == t.hour * 60 + t.minute
        is_weekend == t.weekday >= 5
        start      == ParseHhmm(IF is_weekend THEN q.weekend_start ELSE q.weekday_start)
        end        == ParseHhmm(IF is_weekend THEN q.weekend_end ELSE q.weekday_end)
    IN  IF ~start.ok \/ ~end.ok THEN [raised |-> TRUE, quiet |-> FALSE]
        ELSE IF start.val = end.val THEN [raised |-> FALSE, quiet |-> TRUE]
        ELSE IF start.val < end.val
          THEN [raised |-> FALSE, quiet |-> start.val <= minute /\ minute < end.val]
        ELSE [raised |-> FALSE, quiet |-> minute >= start.val \/ minute < end.val]

\* The quiet-hours texts tried, each with the time of day it denotes
\* (-1: it denotes none).
ClockTexts ==
    { [text |-> <<"2", "1", ":", "0", "0">>, minutes |-> 1260],
      [text |-> <<"0", "5", ":", "5", "0">>, minutes |-> 350],
      [text |-> <<"7", ":", "5">>, minutes |-> 425],
      [text |-> <<"2", "4", ":", "0", "0">>, minutes |-> -1],
      [text |-> <<"2", "1", "h">>, minutes |-> -1] }

\* the (start, end) pairs tried for one kind of day
QuietPairs ==
    { <<<<"2", "1", ":", "0", "0">>, <<"0", "5", ":", "5", "0">>>>,
      <<<<"7", ":", "5">>, <<"2", "1", ":", "0", "0">>>>,
      <<<<"2", "1", ":", "0", "0">>, <<"2", "1", ":", "0", "0">>>>,
      <<<<"2", "4", ":", "0", "0">>, <<"0", "5", ":", "5", "0">>>>,
      <<<<"2", "1", ":", "0", "0">>, <<"2", "1", "h">>>> }

\* the local times tried: Monday and Saturday, six times of day
LocalTimes ==
    { [weekday |-> d, hour |-> hm[1], minute |-> hm[2]] :
        d \in {0, 5},
        hm \in {<<0, 30>>, <<5, 50>>, <<7, 5>>, <<12, 0>>, <<21, 0>>, <<23, 59>>} }

\* JSON values of the envelope fields: a string, or something else
Str(x) == [isStr |-> TRUE, s |-> x]
NotStr == [isStr |-> FALSE, s |-> ""]

\* data["text"]: absent, a text, or a number
NoText == [kind |-> "none", s |-> <<>>]
Text(x) == [kind |-> "str", s |-> x]
NumberText == [kind |-> "int", s |-> <<"5">>]

\* a well-formed announce.request with trace id tr
Request(tr) ==
    [json |-> "object", id |-> Str("e1"), ts |-> Str("2026"), source |-> Str("agent"),
     type |-> Str("announce.request"), trace_id |-> Str(tr), data_is_dict |-> TRUE,
     text |-> Text(<<"h", "i">>)]

\* no message yet
NoMsg == [Request("") EXCEPT !.json = "none"]

\* the messages tried: well-formed requests, and requests with one defect
Messages ==
    {Request(tr) : tr \in {"tr1", "tr2"}}
      \cup {[Request("tr1") EXCEPT !.json = j] : j \in {"invalid", "not_object"}}
      \cup {[Request("tr1") EXCEPT !.id = v] : v \in {NotStr, Str("")}}
      \cup {[Request("tr1") EXCEPT !.ts = v] : v \in {NotStr, Str("")}}
      \cup {[Request("tr1") EXCEPT !.source = v] : v \in {NotStr, Str("")}}
      \cup {[Request("tr1") EXCEPT !.type = v] : v \in {NotStr, Str(""), Str("announce.done")}}
      \cup {[Request("tr1") EXCEPT !.trace_id = v] : v \in {NotStr, Str("")}}
      \cup {[Request("tr1") EXCEPT !.data_is_dict = FALSE]}
      \cup {[Request("tr1") EXCEPT !.text = v] : v \in {NoText, Text(<<>>), Text(<<" ">>), NumberText}}

InitGateway ==
    /\ quiet_hours \in
         { [enabled |-> e, weekday_start |-> wd[1], weekday_end |-> wd[2],
            weekend_start |-> we[1], weekend_end |-> we[2]] :
             e \in BOOLEAN, wd \in QuietPairs, we \in QuietPairs }
    /\ gwPc = "waiting"
    /\ msg = NoMsg
    /\ now_local = [weekday |-> 0, hour |-> 12, minute |-> 0]
    /\ taken = 0
    /\ ttsCalls = 0 /\ hostBytesCalls = 0 /\ playUrlCalls = 0
    /\ published = <<>>
    /\ suppressed_total = 0 /\ ok_total = 0 /\ err_total = 0

\* the gateway as started, for the specifications of the other components
ParkedGateway ==
    /\ InitGateway
    /\ ~quiet_hours.enabled
    /\ quiet_hours.weekday_start = <<"2", "1", ":", "0", "0">>
    /\ quiet_hours.weekend_start = <<"2", "1", ":", "0", "0">>
    /\ quiet_hours.weekday_end = <<"0", "5", ":", "5", "0">>
    /\ quiet_hours.weekend_end = <<"0", "5", ":", "5", "0">>

\* isinstance(v, str) and v
NonEmptyStr(v) == v.isStr /\ v.s # ""

\* lines 143-182: the message passes the envelope checks
Accepted(m) ==
    /\ m.json = "object"
    /\ NonEmptyStr(m.id) /\ NonEmptyStr(m.ts) /\ NonEmptyStr(m.source)
    /\ NonEmptyStr(m.type) /\ m.type.s = "announce.request"
    /\ NonEmptyStr(m.trace_id)
    /\ m.data_is_dict
    /\ Strip(m.text.s) # <<>>

\* make_event(source="sonos-gateway", typ="announce.suppressed", trace_id=..., data=...)
SuppressedEvent(m) ==
    [topic |-> "announce/suppressed", source |-> "sonos-gateway",
     type |-> "announce.suppressed", trace_id |-> m.trace_id.s,
     original_event_id |-> m.id.s]

\* lines 185-199: the quiet-hours decision for an accepted message
Quiet(t) ==
    /\ quiet_hours.enabled
    /\ LET r == IsQuietNow(t, quiet_hours) IN r.raised \/ r.quiet

\* line 187: the clock is read only for an accepted message with quiet hours
\* enabled; otherwise the last reading stays
ClockReads(m) == IF Accepted(m) /\ quiet_hours.enabled THEN LocalTimes ELSE {now_local}

\* The main loop, lines 141-237: next_message() returns m, the clock reads t;
\* the envelope checks, the quiet-hours stop, up to the await of the synthesis.
\* A JSON text that is not an object makes payload.get raise out of the loop.
GwHandle(m) ==
    /\ gwPc = "waiting"
    /\ taken < MaxRequests
    /\ taken' = taken + 1
    /\ msg' = m
    /\ ttsCalls' = 0 /\ hostBytesCalls' = 0 /\ playUrlCalls' = 0
    /\ \E t \in ClockReads(m) :
         /\ now_local' = t
         /\ IF m.json = "not_object"
              THEN gwPc' = "crashed" /\ published' = <<>> /\ UNCHANGED suppressed_total
              ELSE IF ~Accepted(m)
                THEN gwPc' = "waiting" /\ published' = <<>> /\ UNCHANGED suppressed_total
              ELSE IF Quiet(t)
                THEN /\ suppressed_total' = suppressed_total + 1
                     /\ published' = <<SuppressedEvent(m)>>
                     /\ gwPc' = "waiting"
              ELSE gwPc' = "tts" /\ published' = <<>> /\ UNCHANGED suppressed_total
    /\ UNCHANGED <<quiet_hours, ok_total, err_total>>
    /\ UNCHANGED otherThanGateway

\* line 239: await tts.synthesize(...) returns or raises.
GwSynthesize(raises) ==
    /\ gwPc = "tts"
    /\ ttsCalls' = ttsCalls + 1
    /\ gwPc' = IF raises THEN "waiting" ELSE "host"
    /\ err_total' = IF raises THEN err_total + 1 ELSE err_total
    /\ UNCHANGED <<quiet_hours, msg, now_local, taken, hostBytesCalls,
                   playUrlCalls, published, suppressed_total, ok_total>>
    /\ UNCHANGED otherThanGateway

\* lines 240-245: host.host_bytes(...) returns or raises.
GwHostBytes(raises) ==
    /\ gwPc = "host"
    /\ hostBytesCalls' = hostBytesCalls + 1
    /\ gwPc' = IF raises THEN "waiting" ELSE "play"
    /\ err_total' = IF raises THEN err_total + 1 ELSE err_total
    /\ UNCHANGED <<quiet_hours, msg, now_local, taken, ttsCalls, playUrlCalls,
                   published, suppressed_total, ok_total>>
    /\ UNCHANGED otherThanGateway

\* lines 246-269: await player2.play_url(...) returns or raises.
GwPlayUrl(raises) ==
    /\ gwPc = "play"
    /\ playUrlCalls' = playUrlCalls + 1
    /\ gwPc' = "waiting"
    /\ ok_total' = IF raises THEN ok_total ELSE ok_total + 1
    /\ err_total' = IF raises THEN err_total + 1 ELSE err_total
    /\ UNCHANGED <<quiet_hours, msg, now_local, taken, ttsCalls, hostBytesCalls,
                   published, suppressed_total>>
    /\ UNCHANGED otherThanGateway

NextGateway ==
    \/ \E m \in Messages : GwHandle(m)
    \/ \E raises \in BOOLEAN : GwSynthesize(raises)
    \/ \E raises \in BOOLEAN : GwHostBytes(raises)
    \/ \E raises \in BOOLEAN : GwPlayUrl(raises)

(***************************************************************************)
(* EventBus                                                                *)
(***************************************************************************)
BusTopics == {"x", "y"}
BusHandlers == {"h1", "h2"}
Payloads == {"p1", "p2"}

InitBus ==
    /\ busSubs = <<>>
    /\ subscribeCalls = 0
    /\ publishCalls = 0
    /\ pubPc = "idle"
    /\ event = [topic |-> "", payload |-> ""]
    /\ handlers = <<>>
    /\ registered = <<>>
    /\ hPc = <<>>
    /\ received = [h \in BusHandlers |-> <<>>]

\* the bus as constructed, for the specifications of the other components
ParkedBus == InitBus

\* Mutation of HandlersFor: the handlers of every topic.
RECURSIVE HandlersForAnyTopic(_, _)
HandlersForAnyTopic(subscriptions, tp) ==
    IF DOMAIN subscriptions = {} THEN <<>>
    ELSE LET t == CHOOSE x \in DOMAIN subscriptions : TRUE
         IN  subscriptions[t]
               \o HandlersForAnyTopic([u \in DOMAIN subscriptions \ {t} |-> subscriptions[u]], tp)

\* list(self._subs.get(topic, []))
HandlersFor(subscriptions, tp) ==
    IF tp \in DOMAIN subscriptions THEN subscriptions[tp] ELSE <<>>

\* subscribe(topic, handler): self._subs.setdefault(topic, []).append(handler)
BusSubscribe(tp, h) ==
    /\ subscribeCalls < MaxSubscriptions
    /\ subscribeCalls' = subscribeCalls + 1
    /\ busSubs' = (tp :> Append(HandlersFor(busSubs, tp), h)) @@ busSubs
    /\ UNCHANGED <<publishCalls, pubPc, event, handlers, registered, hPc, received>>
    /\ UNCHANGED otherThanBus

\* the events each handler is called with by h(event) for h in hs
RECURSIVE CalledWith(_, _)
CalledWith(hs, e) ==
    IF hs = <<>> THEN [h \in BusHandlers |-> <<>>]
    ELSE LET rest == CalledWith(Tail(hs), e)
         IN  [rest EXCEPT ![Head(hs)] = <<e>> \o @]

\* publish(topic, payload), lines 31-35: build the event, copy the topic's
\* handler list, return when it is empty, else call every handler and await
\* the gather.
BusPublish(tp, payload) ==
    /\ pubPc \in {"idle", "returned", "raised"}
    /\ \A i \in DOMAIN hPc : hPc[i] # "running"
    /\ publishCalls < MaxPublishes
    /\ publishCalls' = publishCalls + 1
    /\ event' = [topic |-> tp, payload |-> payload]
    /\ handlers' = HandlersFor(busSubs, tp)
    /\ registered' = busSubs
    /\ hPc' = [i \in DOMAIN handlers' |-> "running"]
    /\ received' = CalledWith(handlers', event')
    /\ pubPc' = IF handlers' = <<>> THEN "returned" ELSE "running"
    /\ UNCHANGED <<busSubs, subscribeCalls>>
    /\ UNCHANGED otherThanBus

\* A handler's coroutine finishes or raises; the gather of line 35
\* (return_exceptions=False) raises with the first failure and returns when
\* every handler has finished without one.
HandlerFinish ==
    \E i \in DOMAIN hPc, raises \in BOOLEAN :
        /\ hPc[i] = "running"
        /\ hPc' = [hPc EXCEPT ![i] = IF raises THEN "failed" ELSE "done"]
        /\ pubPc' = IF pubPc = "running" /\ raises THEN "raised"
                    ELSE IF pubPc = "running" /\ \A j \in DOMAIN hPc : hPc'[j] = "done"
                      THEN "returned"
                    ELSE pubPc
        /\ UNCHANGED <<busSubs, subscribeCalls, publishCalls, event, handlers,
                       registered, received>>
        /\ UNCHANGED otherThanBus

NextBus ==
    \/ \E tp \in BusTopics, h \in BusHandlers : BusSubscribe(tp, h)
    \/ \E tp \in BusTopics, payload \in Payloads : BusPublish(tp, payload)
    \/ HandlerFinish

(***************************************************************************)
(* camera-lighting agent                                                   *)
(***************************************************************************)

\* key = device_id: the one key of the timers map
DeviceId == "device"

\* duration = max(1, int(...duration_seconds)); min_retrigger = max(0, int(...))
InitLighting ==
    /\ duration \in 1..MaxDuration
    /\ min_retrigger \in {0, MaxRetrigger}
    /\ now_mono = 0
    /\ timers = <<>>       \* timers: Dict[str, _LightTimer] = {}
    /\ offTasks = <<>>
    /\ commands = <<>>
    /\ triggerTimes = <<>>

\* the agent as started, for the specifications of the other components
ParkedLighting == InitLighting /\ duration = 1 /\ min_retrigger = 0

\* the most recent trigger_lights() call's time
LastTrigger == triggerTimes[Len(triggerTimes)]

\* a lutron command as published, with the time of the most recent trigger
Command(action) == [action |-> action, at |-> now_mono, trigger |-> LastTrigger]

\* Task.cancel(): a task that has not run yet is marked and ends at its
\* first step without entering the coroutine, a task waiting in
\* asyncio.sleep() has CancelledError thrown into it at its next step, a
\* finished task is left alone.
Cancel(task) ==
    CASE task.st = "created" -> [task EXCEPT !.must_cancel = TRUE]
      [] task.st = "sleeping" -> [task EXCEPT !.st = "cancelling"]
      [] OTHER -> task

\* trigger_lights(): one accepted camera event.
TriggerLights ==
    /\ Len(triggerTimes) < MaxTriggers
    /\ triggerTimes' = Append(triggerTimes, now_mono)
    /\ LET has == DeviceId \in DOMAIN timers     \* t = timers.get(key) is not None
           t == timers[DeviceId]
           should_send_on == ~(has /\ now_mono - t.last_on_sent_at < min_retrigger)
           last_on == IF should_send_on \/ ~has THEN now_mono ELSE t.last_on_sent_at
           cancelled == IF has
                          THEN [offTasks EXCEPT ![t.off_task] = Cancel(@)]
                          ELSE offTasks
       IN  /\ commands' = IF should_send_on
                            THEN Append(commands, [action |-> "on", at |-> now_mono,
                                                   trigger |-> now_mono])
                            ELSE commands
           /\ offTasks' = Append(cancelled, [st |-> "created", must_cancel |-> FALSE,
                                             wake |-> 0])
           /\ timers' = (DeviceId :> [off_task |-> Len(offTasks) + 1,
                                      last_on_sent_at |-> last_on])
    /\ UNCHANGED <<duration, min_retrigger, now_mono>>
    /\ UNCHANGED otherThanLighting

\* schedule_off(), first step of the task: up to await asyncio.sleep(duration);
\* a task cancelled before its first step ends without running the coroutine.
OffTaskStart(i) ==
    /\ i \in DOMAIN offTasks
    /\ offTasks[i].st = "created"
    /\ offTasks' = [offTasks EXCEPT ![i] =
                      IF @.must_cancel
                        THEN [@ EXCEPT !.st = "finished"]
                        ELSE [@ EXCEPT !.st = "sleeping", !.wake = now_mono + duration]]
    /\ UNCHANGED <<duration, min_retrigger, now_mono, timers, commands, triggerTimes>>
    /\ UNCHANGED otherThanLighting

\* schedule_off(), CancelledError raised by the sleep: finally: timers.pop(key, None)
OffTaskCancelled(i) ==
    /\ i \in DOMAIN offTasks
    /\ offTasks[i].st = "cancelling"
    /\ timers' = <<>>
    /\ offTasks' = [offTasks EXCEPT ![i].st = "finished"]
    /\ UNCHANGED <<duration, min_retrigger, now_mono, commands, triggerTimes>>
    /\ UNCHANGED otherThanLighting

\* schedule_off(), the sleep is over: publish "off", then
\* finally: timers.pop(key, None)
OffTaskElapsed(i) ==
    /\ i \in DOMAIN offTasks
    /\ offTasks[i].st = "sleeping"
    /\ now_mono >= offTasks[i].wake
    /\ commands' = Append(commands, Command("off"))
    /\ timers' = <<>>
    /\ offTasks' = [offTasks EXCEPT ![i].st = "finished"]
    /\ UNCHANGED <<duration, min_retrigger, now_mono, triggerTimes>>
    /\ UNCHANGED otherThanLighting

\* a task the event loop can step now
Ready(task) ==
    \/ task.st \in {"created", "cancelling"}
    \/ task.st = "sleeping" /\ now_mono >= task.wake

\* One second passes; the event loop has stepped every task that was ready.
LightingTick ==
    /\ now_mono < MaxMono
    /\ \A i \in DOMAIN offTasks : ~Ready(offTasks[i])
    /\ now_mono' = now_mono + 1
    /\ UNCHANGED <<duration, min_retrigger, timers, offTasks, commands, triggerTimes>>
    /\ UNCHANGED otherThanLighting

NextLighting ==
    \/ TriggerLights
    \/ \E i \in 1..MaxTriggers : OffTaskStart(i)
    \/ \E i \in 1..MaxTriggers : OffTaskCancelled(i)
    \/ \E i \in 1..MaxTriggers : OffTaskElapsed(i)
    \/ LightingTick

(***************************************************************************)
(* time-trigger service                                                    *)
(***************************************************************************)
ScheduleIds == 1..NumSchedules

\* the kinds add_or_replace_job() builds a trigger for
KnownKinds == {"cron", "interval", "once"}

\* the kinds tried for a row: one the service knows, one it does not
Kinds == {"cron", "weekly"}

\* ScheduleRow, reduced to the fields add_or_replace_job() decides on
ScheduleRow(id, enabled, kind) == [id |-> id, enabled |-> enabled, kind |-> kind]

InitTrigger ==
    /\ table = {}
    /\ jobs = {}            \* scheduler = AsyncIOScheduler()
    /\ reload_inflight = FALSE
    /\ schedules = {}
    /\ reloadPc = "sleeping"
    /\ reloadResult = "none"
    /\ reloads = 0
    /\ edits = 0

\* the service as started, for the specifications of the other components
ParkedTrigger == InitTrigger

\* add_or_replace_job(s) applied to the scheduler's jobs js: the job of the
\* row is removed; a disabled row gets none; a row of unknown kind raises
\* ValueError; otherwise the job is added under the id "schedule:<id>".
AddOrReplaceJob(s, js) ==
    LET removed == js \ {s.id}
    IN  IF ~s.enabled THEN [jobs |-> removed, raised |-> FALSE]
        ELSE IF s.kind \notin KnownKinds THEN [jobs |-> removed, raised |-> TRUE]
        ELSE [jobs |-> removed \cup {s.id}, raised |-> FALSE]

\* for s in schedules: add_or_replace_job(s), over the rows in ascending id
\* order (ORDER BY id ASC) from id on; the loop ends at the first row that raises.
RECURSIVE ReplaceAllJobs(_, _, _)
ReplaceAllJobs(rows, id, js) ==
    IF id > NumSchedules THEN [jobs |-> js, raised |-> FALSE]
    ELSE IF \A s \in rows : s.id # id THEN ReplaceAllJobs(rows, id + 1, js)
    ELSE LET s == CHOOSE r \in rows : r.id = id
             res == AddOrReplaceJob(s, js)
         IN  IF res.raised THEN res ELSE ReplaceAllJobs(rows, id + 1, res.jobs)

\* a row is inserted into the schedules table
DbInsert(id, enabled, kind) ==
    /\ edits < MaxEdits
    /\ \A s \in table : s.id # id
    /\ table' = table \cup {ScheduleRow(id, enabled, kind)}
    /\ edits' = edits + 1
    /\ UNCHANGED <<jobs, reload_inflight, schedules, reloadPc, reloadResult, reloads>>
    /\ UNCHANGED otherThanTrigger

\* a row of the schedules table is enabled or disabled
DbSetEnabled(id) ==
    /\ edits < MaxEdits
    /\ \E s \in table :
         /\ s.id = id
         /\ table' = (table \ {s}) \cup {ScheduleRow(id, ~s.enabled, s.kind)}
    /\ edits' = edits + 1
    /\ UNCHANGED <<jobs, reload_inflight, schedules, reloadPc, reloadResult, reloads>>
    /\ UNCHANGED otherThanTrigger

\* a row of the schedules table is deleted
DbDelete(id) ==
    /\ edits < MaxEdits
    /\ \E s \in table : s.id = id /\ table' = table \ {s}
    /\ edits' = edits + 1
    /\ UNCHANGED <<jobs, reload_inflight, schedules, reloadPc, reloadResult, reloads>>
    /\ UNCHANGED otherThanTrigger

\* reload_loop, one iteration up to the await: a reload still in flight is
\* skipped, otherwise the load is started on the worker thread.
ReloadStart ==
    /\ reloadPc = "sleeping"
    /\ reloads < MaxReloads
    /\ reloads' = reloads + 1
    /\ IF reload_inflight
         THEN UNCHANGED <<reload_inflight, reloadPc>>
         ELSE reload_inflight' = TRUE /\ reloadPc' = "loading"
    /\ UNCHANGED <<table, jobs, schedules, reloadResult, edits>>
    /\ UNCHANGED otherThanTrigger

\* load_schedules() on the worker thread: the rows of the table as they are
\* now, or the exception db.run() raised.
LoadSchedules ==
    /\ reloadPc = "loading"
    /\ \E raises \in BOOLEAN :
         IF raises
           THEN /\ reload_inflight' = FALSE
                /\ reloadResult' = "failed"
                /\ reloadPc' = "sleeping"
                /\ UNCHANGED schedules
           ELSE /\ schedules' = table
                /\ reloadPc' = "loaded"
                /\ UNCHANGED <<reload_inflight, reloadResult>>
    /\ UNCHANGED <<table, jobs, reloads, edits>>
    /\ UNCHANGED otherThanTrigger

\* reload_loop, after the await: every loaded row is registered again; an
\* exception of add_or_replace_job() ends the iteration as failed.
ReloadApply ==
    /\ reloadPc = "loaded"
    /\ LET res == ReplaceAllJobs(schedules, 1, jobs)
       IN  /\ jobs' = res.jobs
           /\ reloadResult' = IF res.raised THEN "failed" ELSE "ok"
    /\ reload_inflight' = FALSE
    /\ reloadPc' = "sleeping"
    /\ UNCHANGED <<table, schedules, reloads, edits>>
    /\ UNCHANGED otherThanTrigger

NextTrigger ==
    \/ \E id \in ScheduleIds, enabled \in BOOLEAN, kind \in Kinds :
          DbInsert(id, enabled, kind)
    \/ \E id \in ScheduleIds : DbSetEnabled(id)
    \/ \E id \in ScheduleIds : DbDelete(id)
    \/ ReloadStart
    \/ LoadSchedules
    \/ ReloadApply

\* the client as constructed, for the specifications of the other components
ParkedMqtt == InitMqtt /\ queue_maxsize = 0 /\ workload.subs = 1

InitSpecMqtt == InitMqtt /\ ParkedDb /\ ParkedPlayback /\ ParkedHost /\ ParkedGateway /\ ParkedBus /\ ParkedLighting /\ ParkedTrigger
SpecMqtt == InitSpecMqtt /\ [][NextMqtt]_vars

\* the manager with a reconnect deadline of at most MaxReconnectWait seconds
InitSpecDb == InitDb /\ reconnect_max_wait_seconds <= MaxReconnectWait /\ ParkedMqtt /\ ParkedPlayback /\ ParkedHost /\ ParkedGateway /\ ParkedBus /\ ParkedLighting /\ ParkedTrigger
SpecDb == InitSpecDb /\ [][NextDb]_vars

\* the orchestrator with speakers that are idle when the request arrives
InitSpecPlayback == InitPlayback /\ playingBefore = {} /\ ParkedMqtt /\ ParkedDb /\ ParkedHost /\ ParkedGateway /\ ParkedBus /\ ParkedLighting /\ ParkedTrigger
SpecPlayback == InitSpecPlayback /\ [][NextPlayback]_vars
\* the groupings tried under fair scheduling: every speaker standalone, or
\* the second speaker joined to the first one's group
ScheduledGroupings ==
    {f \in Groupings : f["a1"] = "a1" /\ f["a3"] = "a3" /\ f["a2"] \in {"a1", "a2"}}

\* the created tasks are scheduled and the executor's threads run
InitSpecScheduled == InitSpecPlayback /\ coordOf \in ScheduledGroupings
FairSpecPlayback ==
    InitSpecScheduled /\ [][NextPlayback]_vars /\ WF_vars(TaskStep)

\* the orchestrator with speakers that may be playing when the request
\* arrives, for at most MaxResumeIps configured addresses
InitSpecResume ==
    /\ InitPlayback /\ Len(speaker_ips) <= MaxResumeIps
    /\ ParkedMqtt /\ ParkedDb /\ ParkedHost /\ ParkedGateway /\ ParkedBus /\ ParkedLighting /\ ParkedTrigger
SpecResume == InitSpecResume /\ [][NextPlayback]_vars

\* the host with one thread calling host_bytes()
InitSpecHost == InitHost /\ callers = 1 /\ ParkedMqtt /\ ParkedDb /\ ParkedPlayback /\ ParkedGateway /\ ParkedBus /\ ParkedLighting /\ ParkedTrigger
SpecHost == InitSpecHost /\ [][NextHost]_vars

\* the host with NumHostCallers threads calling host_bytes()
InitSpecHostCallers ==
    /\ InitHost /\ callers = NumHostCallers
    /\ ParkedMqtt /\ ParkedDb /\ ParkedPlayback /\ ParkedGateway /\ ParkedBus /\ ParkedLighting /\ ParkedTrigger
SpecHostCallers == InitSpecHostCallers /\ [][NextHost]_vars

InitSpecGateway == InitGateway /\ ParkedMqtt /\ ParkedDb /\ ParkedPlayback /\ ParkedHost /\ ParkedBus /\ ParkedLighting /\ ParkedTrigger
SpecGateway == InitSpecGateway /\ [][NextGateway]_vars

InitSpecBus ==
    InitBus /\ ParkedMqtt /\ ParkedDb /\ ParkedPlayback /\ ParkedHost /\ ParkedGateway /\ ParkedLighting /\ ParkedTrigger
SpecBus == InitSpecBus /\ [][NextBus]_vars

\* Every started call keeps taking steps: a thread that can run, or that can
\* again and again take the lock it waits for, eventually does.
FairSpecDb == SpecDb /\ \A t \in DbThreads : SF_vars(DbThreadStep(t))

\* the manager with a reconnect deadline of LongReconnectWait seconds
InitSpecBackoff ==
    /\ InitDb /\ reconnect_max_wait_seconds = LongReconnectWait
    /\ ParkedMqtt /\ ParkedPlayback /\ ParkedHost /\ ParkedGateway /\ ParkedBus /\ ParkedLighting /\ ParkedTrigger
SpecBackoff == InitSpecBackoff /\ [][NextDb]_vars

(***************************************************************************)
InitSpecLighting ==
    /\ InitLighting
    /\ ParkedMqtt /\ ParkedDb /\ ParkedPlayback /\ ParkedHost /\ ParkedGateway /\ ParkedBus /\ ParkedTrigger
SpecLighting == InitSpecLighting /\ [][NextLighting]_vars


(***************************************************************************)
InitSpecTrigger ==
    /\ InitTrigger
    /\ ParkedMqtt /\ ParkedDb /\ ParkedPlayback /\ ParkedHost /\ ParkedGateway /\ ParkedBus /\ ParkedLighting
SpecTrigger == InitSpecTrigger /\ [][NextTrigger]_vars


(***************************************************************************)
(* Properties of MqttClient                                                *)
(***************************************************************************)

\* 1, 2, ..., n: the first n messages in arrival order
FirstArrivals(n) == [i \in 1..n |-> i]

\* stats()
Stats == [connected |-> IF connected THEN 1 ELSE 0,
          queue_size |-> Len(queue),
          queue_maxsize |-> QueueCapacity(queue_maxsize),
          max_queue_size_seen |-> max_queue_size_seen,
          received_total |-> received_total,
          dropped_total |-> dropped_total,
          connect_total |-> connect_total,
          disconnect_total |-> disconnect_total,
          last_connect_rc |-> last_connect_rc,
          last_disconnect_rc |-> last_disconnect_rc]

\* number of _enqueue calls scheduled on the loop and not yet run
ScheduledEnqueues == Cardinality({i \in 1..Len(loopCalls) : loopCalls[i].kind = "enqueue"})

BackpressureNoConsumer ==
    delivered = <<>> =>
       /\ queue = FirstArrivals(Min(received_total, Stats.queue_maxsize))
       /\ Stats.dropped_total = Max(0, received_total - Stats.queue_maxsize)

\* a drop counts one message and leaves the queue as it was
DropLeavesQueue ==
    dropped_total' # dropped_total => queue' = queue /\ dropped_total' = dropped_total + 1

\* next_message() returns the oldest queued message; nothing else removes one
ReadsTakeOldest ==
    /\ delivered' # delivered =>
          queue # <<>> /\ delivered' = Append(delivered, Head(queue)) /\ queue' = Tail(queue)
    /\ queue' # queue =>
          \/ queue # <<>> /\ queue' = Tail(queue) /\ delivered' # delivered
          \/ Len(queue') = Len(queue) + 1 /\ SubSeq(queue', 1, Len(queue)) = queue

\* C1: with capacity N and no consumer, of N+k arrived messages exactly the k
\* newest are dropped and dropped_total = k; a drop leaves the queue unchanged;
\* the N retained messages are later returned by next_message() in arrival order.
C1_DropNewest ==
    []BackpressureNoConsumer /\ [][DropLeavesQueue /\ ReadsTakeOldest]_vars

\* C1 witness: two messages were dropped on a full queue nobody had read, and
\* the retained ones have since been returned in arrival order.
C1_Witness ==
    /\ dropped_total = 2
    /\ received_total = Stats.queue_maxsize + 2
    /\ delivered = FirstArrivals(Stats.queue_maxsize)

\* C8: received_total = returned + queue depth + dropped_total, and every
\* message handed to on_message is either counted or still scheduled on the loop.
C8_NoSilentDrop ==
    /\ Stats.received_total = Len(delivered) + Stats.queue_size + Stats.dropped_total
    /\ loop => arrivals = Stats.received_total + ScheduledEnqueues

\* C8 witness: some message was dropped, one returned and one is still queued.
C8_Witness ==
    /\ dropped_total >= 1 /\ Len(delivered) >= 1 /\ Len(queue) >= 1

\* C11: the messages returned by next_message(), followed by those still
\* queued, are messages the on-message callback received, in the order it
\* received them and each at most once (message ids count the arrivals).
C11_ReturnedInArrivalOrder ==
    LET held == delivered \o queue
    IN  /\ \A i \in DOMAIN held : held[i] \in 1..arrivals
        /\ \A i, j \in DOMAIN held : i < j => held[i] < held[j]

\* C11 witness: the second arrival was dropped, and next_message() returned
\* the first and then the third.
C11_Witness ==
    /\ delivered = <<1, 3>> /\ dropped_total = 1 /\ queue = <<>>

\* C4: once a connect callback has completed on an accepted session, every
\* registered topic is subscribed on that session, whatever disconnects came
\* before; the callback issues exactly the registry items (each topic with its
\* recorded qos) it found when it started.
C4_Resubscribed ==
    /\ (sock /\ sessionOk /\ netPc = "idle" /\ subPc = "idle") =>
          \A tp \in DOMAIN subs : tp \in DOMAIN session
    /\ netPc = "resub" => cbIssued \cup pending = resubList
    /\ (netPc = "resub" /\ sock /\ subPc = "idle") =>
          \A item \in cbIssued : item[1] \in DOMAIN session

\* C4 witness: on the second session, after a disconnect, the connect callback
\* has re-issued both registered topics and the application has not called
\* subscribe() since the first session.
C4_Witness ==
    /\ connect_total = 2 /\ disconnect_total = 1 /\ sock /\ sessionOk
    /\ netPc = "resub" /\ pending = {} /\ subPc = "idle"
    /\ Cardinality(cbIssued) = 2 /\ DOMAIN session = DOMAIN subs

\* C12: connect() has returned normally only if a connection acknowledgment
\* reporting success (result code 0) was received before.
C12_ReturnsOnlyAfterAccept ==
    connectPc = "returned" => \E i \in DOMAIN acks : acks[i] = 0

\* the state of the client that the event-loop side reads: next_message()
\* (lines 153-155), connect() (line 126), is_connected() and stats()
\* (lines 157-175)
LoopReadState ==
    {"queue", "received_total", "dropped_total", "max_queue_size_seen",
     "connect_total", "disconnect_total", "connected", "connected_event"}

\* C27: no state that the event-loop side reads (inbound queue, counters,
\* connected flag, connected event) is written by a statement of the
\* on-message, on-connect or on-disconnect callbacks running on the network
\* thread.
C27_NoWritesFromNetworkThread == netWrites \cap LoopReadState = {}

\* the topics of the registry snapshot the running connect callback iterates
SnapshotTopics == {item[1] : item \in resubList}

\* C38: whatever the interleaving of subscribe() on the event loop with the
\* connect and disconnect callbacks on the network thread, a registered topic
\* is never lost: while the connect callback runs, the topic is in the
\* callback's snapshot, or has been sent on the current session, or the
\* subscribe() call that recorded it has not yet reached its send; when the
\* callback has gone through its snapshot every topic of it has been sent on
\* the current session; and with the client connected and both sides finished
\* every registered topic has been sent on the current session.
C38_SubscribeNeverLost ==
    /\ netPc = "resub" =>
          /\ sock
          /\ \A tp \in DOMAIN subs :
                \/ tp \in SnapshotTopics
                \/ tp \in DOMAIN session
                \/ subPc # "idle" /\ subPc[1] = tp
          /\ pending = {} => SnapshotTopics \subseteq DOMAIN session
    /\ (sock /\ netPc = "idle" /\ subPc = "idle" /\ connect_total > 0) =>
          DOMAIN subs \subseteq DOMAIN session

\* C38 witness: a topic recorded before any session existed was sent by the
\* connect callback, and a second topic, recorded after the callback took its
\* snapshot, was sent by subscribe() itself while the callback was running.
C38_Witness ==
    /\ netPc = "resub" /\ subPc = "idle" /\ sock /\ pending = {}
    /\ connect_total = 1 /\ Cardinality(DOMAIN subs) = 2
    /\ Cardinality(SnapshotTopics) = 1
    /\ DOMAIN session = DOMAIN subs

(***************************************************************************)
(* Properties of DbManager                                                 *)
(***************************************************************************)

\* threads holding a connection of their own that is not the manager's:
\* ensure_connected() between _connect_once() and its locked install step,
\* close() between taking the handle and closing it
PrivateHandles ==
    {new_conn[t] : t \in {u \in DbThreads : pc[u] = "ec_install"}}
      \cup {c[t] : t \in {u \in DbThreads : pc[u] = "close_conn" /\ c[u] # 0}}

\* the run() call of thread t has returned fn's result
RunReturnedOk(t) == pc[t] = "idle" /\ result[t] = "ok"

\* C2 (as claimed): a run(op, retries=1) whose first attempt meets a dead
\* connection (the operation fails once, then succeeds on a new connection)
\* returns the success result and leaves the manager holding one live handle,
\* unless close() is requested or the database goes down meanwhile.
C2_RetryOnceReturns ==
    \A t \in DbThreads :
        (pc[t] = "run_lock" /\ retries[t] = 1 /\ opKind[t] = "ok" /\ dbUp
           /\ conn # 0 /\ conns[conn] = "broken")
        ~> ((RunReturnedOk(t) /\ conn # 0 /\ conns[conn] = "open")
              \/ closing \/ ~dbUp)

\* C3 (as claimed): a run(op) on a manager that is not closing, with a
\* database that has always been reachable and a succeeding operation,
\* eventually returns the operation's result.
C3_RunReturns ==
    \A t \in DbThreads :
        (pc[t] = "run_lock" /\ opKind[t] = "ok" /\ outages = 0)
        ~> (RunReturnedOk(t) \/ closing \/ outages > 0)

\* C9 (as claimed): at any time at most one open connection created by the
\* manager exists.
C9_AtMostOneOpen == Cardinality(OpenConns) <= 1

\* C9 (amended): every open connection is the held one or the private handle
\* of a call in progress, and without such a call at most one is open.
C9_NoSurplusLeft ==
    /\ OpenConns \subseteq ({conn} \cup PrivateHandles)
    /\ PrivateHandles = {} => Cardinality(OpenConns) <= 1

\* C9 witness: a thread that lost the race has closed its surplus connection,
\* and the held one is the only open connection.
C9_Witness ==
    /\ \E id \in ConnIds : conns[id] = "closed" /\ id # conn
    /\ conn # 0 /\ OpenConns = {conn} /\ ~closing /\ outages = 0
    /\ \A t \in DbThreads : pc[t] = "idle"

\* C13: close() never waits without a timeout and returns after at most
\* three steps: whenever a thread is inside close(), whoever holds the lock,
\* its next step can be taken at once (the lock is awaited at most 0.5 s),
\* and each step moves it forward: from the acquire to closing the handle,
\* from there to the return.
C13_CloseReturns ==
    /\ [](\A t \in DbThreads :
            pc[t] \in {"close_acquire", "close_conn"}
              => ENABLED (CloseAcquire(t) \/ CloseAcquireTimeout(t) \/ CloseConn(t)))
    /\ [][\A t \in DbThreads :
            /\ (pc[t] = "close_acquire" /\ pc'[t] # pc[t]) => pc'[t] = "close_conn"
            /\ (pc[t] = "close_conn" /\ pc'[t] # pc[t])
                  => (pc'[t] = "idle" /\ closeReturned')]_vars

\* C13 witness: close() has returned without the lock, which a run() call
\* blocked inside ensure_connected() still holds.
C13_Witness ==
    \E t \in DbThreads :
        /\ pc[t] = "idle" /\ closeReturned /\ ~acquired[t]
        /\ lock \in DbThreads \ {t} /\ pc[lock] = "ec_quick"

\* C14: once a close() call has returned, the manager holds no connection
\* handle (and so none is installed afterwards), whatever other calls were
\* in progress.
C14_NoHandleAfterClose == closeReturned => conn = 0

\* C15 (as claimed): a run(op, retries=r) whose operation raises a
\* connection-level error on its first j <= r calls and then succeeds returns
\* the success result (unless close() is requested or the database goes down
\* meanwhile); and when the operation's error propagates from run(), the
\* operation was called exactly r + 1 times.
C15_RetriesThenReturns ==
    /\ \A t \in DbThreads :
          (pc[t] = "run_lock" /\ opKind[t] = "ok" /\ opFails[t] <= retries[t]
             /\ outages = 0)
          ~> (RunReturnedOk(t) \/ closing \/ outages > 0)
    /\ [](\A t \in DbThreads :
            (pc[t] = "idle" /\ result[t] = "conn_error" /\ invocations[t] > 0
               /\ ~closing /\ outages = 0)
            => invocations[t] = retries[t] + 1)

\* C16 (as claimed): a run() whose operation raises a data error (not a
\* connection-level one) calls the operation once and propagates that error
\* (unless close() is requested or the database goes down meanwhile), and
\* the step that propagates it neither reconnects nor touches the held
\* handle.
C16_DataErrorPropagates ==
    /\ \A t \in DbThreads :
          (pc[t] = "run_lock" /\ opKind[t] = "data_error" /\ opFails[t] = 0
             /\ outages = 0)
          ~> ((pc[t] = "idle" /\ result[t] = "data_error" /\ invocations[t] = 1)
                \/ closing \/ outages > 0)
    /\ [][\A t \in DbThreads :
            (pc[t] = "run_fn1" /\ pc'[t] = "idle" /\ result'[t] = "data_error")
              => (conn' = conn /\ conns' = conns)]_vars

\* thread t is inside the locked block of run(), lines 137-154, the calls it
\* makes to ensure_connected() included
InRunSection(t) ==
    \/ pc[t] \in {"run_ec1", "run_fn1", "run_except", "run_ec2", "run_fn2"}
    \/ (pc[t] \in {"ec_quick", "ec_loop", "ec_connect", "ec_wait", "ec_install"}
          /\ ret[t] # "top")

\* C25: at any time at most one thread is inside the block of run() in which
\* the operation is executed on the handle, and a thread inside it holds
\* the manager's lock.
C25_OperationsSerialized ==
    /\ \A t, u \in DbThreads : (InRunSection(t) /\ InRunSection(u)) => t = u
    /\ \A t \in DbThreads : InRunSection(t) => lock = t

\* C25 witness: two threads have called run(); one is inside the locked
\* block and the other waits for the lock.
C25_Witness ==
    \E t, u \in DbThreads :
        /\ t # u /\ InRunSection(t) /\ lock = t
        /\ pc[u] = "run_lock" /\ ~closing

\* min(2^(k-1), 10): the wait claimed after the k-th failed attempt
BackoffWait(k) == Min(2 ^ (k - 1), 10)

\* C32: within one ensure_connected() call, the wait that follows the k-th
\* failed connection attempt (the wait before attempt k+1) lasts
\* min(2^(k-1), 10) seconds: 1, 2, 4, 8, 10, ...; it never exceeds 10.
C32_CappedBackoff ==
    \A t \in DbThreads :
        pc[t] = "ec_wait" =>
            /\ attempts[t] >= 1
            /\ delay[t] = BackoffWait(attempts[t])
            /\ delay[t] <= 10

\* C32 witness: the fifth attempt of a call has failed and the wait of 10
\* seconds, the cap, is about to start.
C32_Witness ==
    \E t \in DbThreads :
        pc[t] = "ec_wait" /\ attempts[t] = 5 /\ delay[t] = 10 /\ ~closing

\* C33: while close() has not been requested and the database refuses every
\* attempt, ensure_connected() raises the connection error only once the
\* deadline has elapsed, and it starts no backoff wait and no connection
\* attempt after the deadline has elapsed.
C33_NothingStartedAfterDeadline ==
    \A t \in DbThreads :
        /\ (pc[t] = "idle" /\ result[t] = "conn_error" /\ ret[t] = "top"
              /\ attempts[t] > 0)
             => elapsed[t] >= Deadline
        /\ (~closing /\ ~dbUp /\ pc[t] \in {"ec_connect", "ec_wait"})
             => elapsed[t] < Deadline

\* C34: once close() has been requested, a run() or ensure_connected() call
\* started afterwards raises db_closing at once, without invoking the
\* operation or attempting a connection; an ensure_connected() waiting in
\* backoff wakes without the delay passing and then raises db_closing
\* without another attempt; and the closing state is never cleared.
C34_ClosingStopsEverything ==
    [][ /\ closing => closing'
        /\ \A t \in DbThreads :
             /\ (closing /\ (EnsureConnected(t)
                               \/ \E req \in RunRequests :
                                     RunCall(t, req.r, req.kind, req.fails)))
                  => /\ pc'[t] = "idle" /\ result'[t] = "db_closing"
                     /\ invocations'[t] = 0 /\ conns' = conns
             /\ (closing /\ pc[t] = "ec_wait" /\ pc'[t] # pc[t])
                  => pc'[t] = "ec_loop" /\ elapsed'[t] = elapsed[t]
             /\ (closing /\ pc[t] = "ec_loop" /\ pc'[t] # pc[t])
                  => pc'[t] = "idle" /\ result'[t] = "db_closing" /\ conns' = conns
      ]_vars

\* C34 witness: a call whose first attempt was refused went into its backoff
\* wait, was woken by close() before any of the delay had passed, and raised
\* db_closing; the thread that closed has returned.
C34_Witness ==
    \E t, u \in DbThreads :
        /\ t # u /\ closing /\ closeReturned
        /\ pc[t] = "idle" /\ result[t] = "db_closing"
        /\ attempts[t] = 1 /\ delay[t] = 2 /\ elapsed[t] = 0
        /\ pc[u] = "idle" /\ result[u] = "returned"

(***************************************************************************)
(* Properties of SonosPlayback                                             *)
(***************************************************************************)
RECURSIVE SumOver(_, _)
SumOver(f, S) == IF S = {} THEN 0
                 ELSE LET a == CHOOSE x \in S : TRUE IN f[a] + SumOver(f, S \ {a})

\* play commands issued by the request, over all devices
PlayCommands == SumOver(plays, Addrs)

\* the coordinators of the configured addresses
ConfiguredCoordinators == {coordOf[speaker_ips[k]] : k \in DOMAIN speaker_ips}

\* the request is over: every target's routine has finished
RequestOver == pbPc \in {"returned", "raised"} /\ \A i \in DOMAIN taskPc : taskPc[i] = "done"

\* C5: one play_url request issues at most one play command per coordinator
\* address, and its targets have pairwise distinct keys, whatever the
\* configured addresses and the grouping; when every device call succeeds the
\* targets are exactly the distinct coordinators of the configured addresses
\* and a finished request has issued one play command to each: two for three
\* addresses of which two share a group.
C5_OnePlayPerCoordinator ==
    /\ \A a \in Addrs : plays[a] <= 1
    /\ \A i, j \in Targets : out[i].key = out[j].key => i = j
    /\ (~lookupRaised /\ pbPc \in {"running", "returned", "raised"}) =>
          /\ {out[i].device : i \in Targets} = ConfiguredCoordinators
          /\ \A a \in Addrs : plays[a] > 0 => a \in ConfiguredCoordinators
    /\ (faults = 0 /\ RequestOver) =>
          PlayCommands = Cardinality(ConfiguredCoordinators)

\* C5 witness: three distinct configured addresses, two of them in one group
\* and one standalone; the request is over and issued exactly two play commands.
C5_Witness ==
    /\ Len(speaker_ips) = 3
    /\ Cardinality({speaker_ips[k] : k \in DOMAIN speaker_ips}) = 3
    /\ Cardinality(ConfiguredCoordinators) = 2
    /\ faults = 0 /\ pbPc = "returned" /\ RequestOver
    /\ PlayCommands = 2

\* the volume the claimed precedence gives a configured address: the
\* per-call argument, else the address's own override, else the default
VolumeByPrecedence(a) ==
    IF volume # <<>> THEN volume[1]
    ELSE IF a \in DOMAIN speaker_volume_map THEN ClampVolume(speaker_volume_map[a])
    ELSE default_volume

\* C17 (as claimed): once a target's routine has written its volumes, the
\* volume applied to every configured address merged into that target is
\* the per-call volume argument if one was given, otherwise the address's
\* own configured override (within 0..100), otherwise the default volume.
C17_VolumePrecedence ==
    \A i \in DOMAIN taskPc :
        taskPc[i] \in {"play", "wait"} =>
            \A a \in DOMAIN out[i].member_volumes :
                volCmd[a] = <<VolumeByPrecedence(a)>>

\* C18: in a play_url request without a volume argument (and without a
\* failed group lookup), when a target's routine is about to issue play or
\* has issued it, every configured address whose coordinator is that
\* target's device has been set to the volume resolved for that address
\* itself, within 0..100.
C18_MergedMemberVolumes ==
    (volume = <<>> /\ ~lookupRaised) =>
        \A i \in DOMAIN taskPc :
            (taskPc[i] = "play" \/ plays[out[i].device] > 0) =>
                \A k \in DOMAIN speaker_ips :
                    coordOf[speaker_ips[k]] = out[i].device =>
                        /\ volCmd[speaker_ips[k]]
                             = <<MemberVolume(speaker_ips[k], out[i].key)>>
                        /\ volCmd[speaker_ips[k]][1] \in 0..100

\* C18 witness: a1 and a2 are configured and share coordinator a2; the one
\* merged job has set a1 to 100 (its override 150, clamped) and a2 to 20,
\* and has issued play.
C18_Witness ==
    /\ volume = <<>> /\ ~lookupRaised
    /\ speaker_ips = <<"a1", "a2">> /\ coordOf["a1"] = "a2" /\ coordOf["a2"] = "a2"
    /\ Len(out) = 1 /\ plays["a2"] = 1
    /\ volCmd["a1"] = <<100>> /\ volCmd["a2"] = <<20>>

\* C19: when a target's routine has raised (the request has raised with
\* it), every target of the request still gets started and runs to the end
\* of its routine, through its own restore.
C19_SiblingsRunToCompletion ==
    (pbPc = "raised") ~> (\A j \in DOMAIN taskPc : taskPc[j] = "done")

\* C19 witness: with one routine admitted at a time, the first target's
\* routine raised and the second target, started after it, has played and
\* finished without an error.
C19_Witness ==
    /\ pbPc = "raised" /\ SemaphoreSize = 1 /\ Len(out) >= 2
    /\ taskErr[1] /\ ~taskErr[2]
    /\ taskPc[2] = "done" /\ plays[out[2].device] = 1

\* C20: a target whose routine has finished was sent exactly one stop
\* command on its coordinator device if its restore raised and none if the
\* restore succeeded, no device is ever sent more than one; and the restore
\* step, whatever raises in it (the stop included), leaves the outcome of
\* the routine as it was.
C20_StopOnlyAfterFailedRestore ==
    /\ [](\A i \in DOMAIN taskPc :
            /\ stopped[out[i].device] <= 1
            /\ taskPc[i] = "done" =>
                 stopped[out[i].device]
                   = (IF out[i].device \in restoreRaised THEN 1 ELSE 0))
    /\ [][\A i \in DOMAIN taskPc :
            (taskPc[i] = "restore" /\ i \in DOMAIN taskPc' /\ taskPc'[i] = "done")
              => taskErr'[i] = taskErr[i]]_vars

\* C20 witness: the request returned normally although one target's restore
\* raised and the stop issued after it raised too; another target played and
\* was restored without a stop.
C20_Witness ==
    /\ pbPc = "returned"
    /\ \E a, b \in Addrs :
          /\ a # b
          /\ a \in restoreRaised /\ a \in stopRaised /\ stopped[a] = 1
          /\ plays[b] = 1 /\ b \notin restoreRaised /\ stopped[b] = 0

\* C23: at every moment of a play_url request at most max(1, concurrency)
\* target routines are inside the gate, so a concurrency argument of 0 or
\* less admits one at a time; and every target that waits at the gate is
\* eventually admitted.
C23_BoundedConcurrency ==
    /\ [](Cardinality(Admitted) <= Max(1, concurrency))
    /\ \A i \in 1..MaxSpeakerIps :
          (i \in DOMAIN taskPc /\ taskPc[i] = "queued")
            ~> (i \in DOMAIN taskPc /\ taskPc[i] # "queued")

\* C23 witness: with a negative concurrency argument the second of three
\* targets is executing after the first has finished, and the third waits.
C23_Witness ==
    /\ concurrency = -1 /\ Len(taskPc) = 3
    /\ taskPc[1] = "done" /\ taskPc[2] = "play" /\ taskPc[3] = "queued"

\* C24 (as claimed): when play_url has completed, by returning or by
\* raising, every target routine of the request has finished: none is
\* running or waiting at the gate.
C24_CompletesAfterAllRoutines ==
    pbPc \in {"returned", "raised"} => \A j \in DOMAIN taskPc : taskPc[j] = "done"

\* C29: in a play_url request with a volume argument v, when a target's
\* routine is about to issue play or has issued it, every configured address
\* merged into that target, not only its coordinator, has been set to v.
C29_UniformCallVolume ==
    volume # <<>> =>
        \A i \in DOMAIN taskPc :
            (taskPc[i] = "play" \/ plays[out[i].device] > 0) =>
                \A a \in DOMAIN out[i].member_volumes : volCmd[a] = volume

\* C28: every blocking device call made for a play_url request, the
\* group-coordinator lookup of target resolution included, is made on a
\* worker thread and never on the event-loop thread.
C28_DeviceCallsOnWorkers == \A ct \in callThreads : ct[2] = "worker"

\* the actions of a whole run of a target's routine, in order
FullRoutine ==
    <<"snapshot", "set_volume", "play", "wait_for_playing",
      IF expected_duration_seconds # <<>> /\ expected_duration_seconds[1] > 0
        THEN "sleep" ELSE "poll_until_done",
      "tail_padding", "restore">>

\* s is an initial part of q
IsPrefix(s, q) == Len(s) <= Len(q) /\ \A k \in DOMAIN s : s[k] = q[k]

\* how often action a occurs in the sequence s
Occurrences(s, a) == Cardinality({k \in DOMAIN s : s[k] = a})

\* C30: within one target's routine the device actions occur in the order
\* snapshot, set volume, play, wait-for-playing, then the sleep for the
\* known duration if expected_duration_seconds > 0 and the polling for the
\* end otherwise, then tail padding, then restore; restore is attempted
\* exactly once in every run, as the last action, also when snapshot or
\* play raised, and a run in which nothing raised takes every action.
C30_RoutineOrder ==
    \A i \in DOMAIN taskPc :
        LET log  == taskLog[i]
            body == SelectSeq(log, LAMBDA a : a # "restore")
        IN  /\ IsPrefix(body, FullRoutine)
            /\ Occurrences(log, "restore") <= 1
            /\ taskPc[i] # "done" => Occurrences(log, "restore") = 0
            /\ taskPc[i] = "done" =>
                 /\ Occurrences(log, "restore") = 1
                 /\ log[Len(log)] = "restore"
                 /\ ~taskErr[i] => log = FullRoutine

\* C30 witness: with a known duration of two seconds, one target's routine
\* ran through all seven actions, sleeping instead of polling, and the
\* snapshot of another target raised and was followed by its restore.
C30_Witness ==
    /\ expected_duration_seconds = <<2>>
    /\ \E i, j \in DOMAIN taskPc :
         /\ taskPc[i] = "done" /\ taskPc[j] = "done"
         /\ taskLog[i] = <<"snapshot", "set_volume", "play", "wait_for_playing",
                           "sleep", "tail_padding", "restore">>
         /\ taskLog[j] = <<"snapshot", "restore">>

\* C31: after a successful restore the resume command is issued if and only
\* if the device was playing before the snapshot and was found not playing
\* after the settle wait; it is issued at most once, never after a failed
\* restore, and never for a device that was not playing before the request.
C31_ResumeOnlyWhenNeeded ==
    \A i \in DOMAIN taskPc :
        /\ resumed[i] <= 1
        /\ out[i].device \notin playingBefore => resumed[i] = 0
        /\ out[i].device \in restoreRaised => resumed[i] = 0
        /\ (taskPc[i] = "done" /\ out[i].device \notin restoreRaised) =>
              (resumed[i] = 1 <=>
                 (out[i].device \in playingBefore /\ settled[i] = "not_playing"))

\* C31 witness: of two devices that were playing, one was found not playing
\* after its restore and got the resume command, and the other was found
\* playing and got none.
C31_Witness ==
    \E i, j \in DOMAIN taskPc :
        /\ taskPc[i] = "done" /\ taskPc[j] = "done"
        /\ {out[i].device, out[j].device} \subseteq playingBefore
        /\ settled[i] = "not_playing" /\ resumed[i] = 1
        /\ settled[j] = "playing" /\ resumed[j] = 0

(***************************************************************************)
(* Properties of AudioHost                                                 *)
(***************************************************************************)

\* time between host_bytes() returning the fetched URL and the fetch
FetchAge == now - hostedAt[lastFetch.name]

\* C6 (as claimed): with a TTL of 1 second and a sweep interval of 1 second, a
\* fetch 0.5 seconds after hosting returns the file and a fetch 2 seconds
\* after hosting, made while the host is running and after every sweep due by
\* then has run, returns not-found.
C6_GoneAfterTwoSeconds ==
    (ttl_seconds = 1 /\ cleanup_interval_seconds = 1 /\ ~stop /\ lastFetch.name # 0) =>
        /\ FetchAge = 1 => lastFetch.status = 200
        /\ (FetchAge = Ticks(2) /\ lastFetch.swept) => lastFetch.status = 404

\* the expiry time host_bytes() recorded for a name whose URL it returned
RecordedExpiry(name) == hostedAt[name] + TtlWindow

\* C21 (as claimed): a fetch of a hosted file's URL made later than the
\* file's recorded expiry time does not return the file, here even when
\* every sweep due by then has already run.
C21_NotServedAfterExpiry ==
    (lastFetch.name # 0 /\ lastFetch.swept /\ now > RecordedExpiry(lastFetch.name))
        => lastFetch.status # 200

\* C22: every file in the temp directory is one host_bytes() wrote and is
\* recording or has recorded, and it is gone by the first sweep at or after
\* its recorded expiry, less than one sweep interval after it; once close()
\* has run the server is not serving, the directory and every file in it
\* are gone, and the sweep loop ends with its next pass.
C22_EveryFileDeleted ==
    /\ [](\A n \in DOMAIN files :
            /\ root = "present"
            /\ n \in DOMAIN hostedAt \/ (\E t \in HostCallers : hostPc[t] = "record" /\ unique[t] = n)
            /\ n \in DOMAIN hostedAt => now < RecordedExpiry(n) + SweepSleep)
    /\ [](stop => (files = <<>> /\ httpd # "serving" /\ root # "present"))
    /\ [][(stop /\ sweepPc = "sleeping" /\ sweepPc' # sweepPc) => sweepPc' = "ended"]_vars

\* C22 witness: file 1 was removed by a sweep after its expiry; then close()
\* removed the directory with file 2, still unexpired, in it, and the sweep
\* loop has ended.
C22_Witness ==
    /\ stop /\ sweepPc = "ended" /\ root = "removed" /\ httpd = "closed"
    /\ DOMAIN hostedAt = {1, 2}
    /\ 1 \notin DOMAIN expires_at /\ 2 \in DOMAIN expires_at
    /\ expires_at[2] > now
    /\ files = <<>>

\* C35: every sweep deletes each file of the temp root that is older than the
\* TTL window, with or without an expiry record and whether or not a
\* tracked file expired in that sweep: while the cleanup thread runs, no
\* file stays in the directory for a whole sweep interval after it has
\* become older than the TTL window.
C35_OrphansPruned ==
    \A n \in DOMAIN files :
        (sweepPc = "sleeping" /\ root = "present")
            => now < files[n] + TtlWindow + SweepSleep

\* C36: for every interleaving of host_bytes() calls of several threads, no
\* server exists before the first call; exactly one HTTP server, temp
\* directory and cleanup thread are created; and every URL returned has the
\* base URL of that one server and names a file written into that one
\* directory.
C36_StartedOnce ==
    /\ hostCalls = 0 => (starts = 0 /\ httpd = "none" /\ root = "none" /\ sweepPc = "none")
    /\ hostCalls > 0 => starts = 1
    /\ \A n \in DOMAIN hostedAt :
         /\ urlBase[n] = 1
         /\ n \in DOMAIN writtenDir /\ writtenDir[n] = 1

\* C36 witness: two threads are inside host_bytes() at the same time, both
\* files are written and neither expiry is recorded yet.
C36_Witness ==
    /\ callers = 2 /\ starts = 1 /\ httpd = "serving"
    /\ hostPc[1] = "record" /\ hostPc[2] = "record"
    /\ {unique[1], unique[2]} = {1, 2}
    /\ DOMAIN files = {1, 2}

\* C37: a host that has been closed is restarted by the next host_bytes()
\* call: once a call has been made after the last close(), the stop flag is
\* clear and a server, a temp directory and a cleanup thread are running.
C37_RestartAfterClose ==
    (callsAtClose >= 0 /\ hostCalls > callsAtClose) =>
        (~stop /\ httpd = "serving" /\ root = "present" /\ sweepPc = "sleeping")

(***************************************************************************)
(* Properties of the sonos gateway                                         *)
(***************************************************************************)

\* the time of day a quiet-hours text denotes (-1: none)
Denotes(text) == (CHOOSE ct \in ClockTexts : ct.text = text).minutes

\* the texts configured for the kind of day of the local time t
StartText(t) == IF t.weekday \in {5, 6} THEN quiet_hours.weekend_start ELSE quiet_hours.weekday_start
EndText(t) == IF t.weekday \in {5, 6} THEN quiet_hours.weekend_end ELSE quiet_hours.weekday_end

\* t lies in the quiet window of its kind of day: from the start time up to
\* the end time, through midnight when the start is the later one
InQuietWindow(t) ==
    LET start  == Denotes(StartText(t))
        end    == Denotes(EndText(t))
        minute == 60 * t.hour + t.minute
    IN  /\ start >= 0 /\ end >= 0
        /\ \/ start < end /\ start <= minute /\ minute < end
           \/ start > end /\ (minute >= start \/ minute < end)

\* a text of the quiet-hours settings denotes no time of day
DayUnparsable(t) == Denotes(StartText(t)) < 0 \/ Denotes(EndText(t)) < 0
AnyUnparsable ==
    \E text \in {quiet_hours.weekday_start, quiet_hours.weekday_end,
                 quiet_hours.weekend_start, quiet_hours.weekend_end} : Denotes(text) < 0

\* the last message was a well-formed announce.request, handled with quiet hours on
HandledRequest ==
    /\ gwPc # "crashed" /\ msg \in {Request(tr) : tr \in {"tr1", "tr2"}}
    /\ quiet_hours.enabled

\* the message was suppressed: no synthesis, hosting or playback call, and
\* exactly one announce.suppressed envelope with the request's trace id
Suppressed ==
    /\ gwPc = "waiting"
    /\ ttsCalls = 0 /\ hostBytesCalls = 0 /\ playUrlCalls = 0
    /\ Len(published) = 1
    /\ published[1].type = "announce.suppressed"
    /\ published[1].trace_id = msg.trace_id.s

Rejected ==
    /\ gwPc = "waiting"
    /\ ttsCalls = 0 /\ hostBytesCalls = 0 /\ playUrlCalls = 0
    /\ published = <<>>

\* C26: a message that is not valid JSON, or lacks a non-empty string id, ts,
\* source, type or trace_id, or whose data is not an object, or whose type is
\* not announce.request, or whose text is empty, causes no hosting or playback
\* call and no publication, and the gateway goes on to the next message.
C26_MalformedRejected ==
    (msg.json # "none" /\ ~Accepted(msg)) => Rejected

(***************************************************************************)
(* Properties of EventBus                                                  *)
(***************************************************************************)

\* how often handler h was subscribed to topic tp in the registry reg
Subscriptions(reg, tp, h) ==
    IF tp \in DOMAIN reg
      THEN Cardinality({i \in DOMAIN reg[tp] : reg[tp][i] = h})
      ELSE 0

\* C10: a publish(topic, payload) calls every handler once for each of its
\* subscriptions to exactly that topic (once for a handler subscribed once),
\* always with an event of that topic and payload; a handler subscribed only
\* to other topics is not called; and publish returns only when every
\* handler it called has completed.
C10_PublishCallsTopicHandlers ==
    pubPc # "idle" =>
       /\ \A h \in BusHandlers :
             /\ Len(received[h]) = Subscriptions(registered, event.topic, h)
             /\ \A k \in DOMAIN received[h] : received[h][k] = event
       /\ pubPc = "returned" => \A i \in DOMAIN hPc : hPc[i] = "done"

\* C10 witness: with h1 subscribed to x and h2 to y, a publish on x has
\* returned after calling h1 once with the event, and h2 not at all.
C10_Witness ==
    /\ pubPc = "returned"
    /\ Subscriptions(registered, "x", "h1") = 1
    /\ Subscriptions(registered, "y", "h2") = 1
    /\ Subscriptions(registered, "x", "h2") = 0
    /\ event = [topic |-> "x", payload |-> "p2"]
    /\ received["h1"] = <<event>> /\ received["h2"] = <<>>
    /\ hPc = <<"done">>

(***************************************************************************)
(* Properties of the camera-lighting agent                                 *)
(***************************************************************************)

\* the off tasks that are pending and have not been cancelled
PendingOff ==
    {i \in DOMAIN offTasks :
        \/ offTasks[i].st = "created" /\ ~offTasks[i].must_cancel
        \/ offTasks[i].st = "sleeping"}

\* C39: after any sequence of triggers at most one off task is pending and
\* not cancelled, it is the most recently created one and the timers entry
\* refers to it, and every "off" command is published no earlier than
\* duration seconds after the most recent trigger.
C39_SingleOffTimer ==
    /\ Cardinality(PendingOff) <= 1
    /\ PendingOff # {} =>
          /\ PendingOff = {Len(offTasks)}
          /\ DeviceId \in DOMAIN timers
          /\ timers[DeviceId].off_task = Len(offTasks)
    /\ \A k \in DOMAIN commands :
          commands[k].action = "off" =>
             commands[k].at >= commands[k].trigger + duration

(***************************************************************************)
(* Properties of the time-trigger service                                  *)
(***************************************************************************)

\* the ids of the enabled rows among rows
EnabledIds(rows) == {s.id : s \in {r \in rows : r.enabled}}

\* C40: after a reload that succeeded the scheduler's jobs are exactly the
\* enabled schedules of the database as that reload read it: no job for a
\* row that is disabled or no longer there, one job for each enabled row.
C40_JobsMatchDatabase ==
    (reloadPc = "sleeping" /\ reloadResult = "ok") => jobs = EnabledIds(schedules)

====
